---------------------------- MODULE Spec2Model ----------------------------
(***************************************************************************)
(* A model of the nengo_mpi distributed step engine: two chunks (MPI       *)
(* ranks), each running its sorted operator list once per step, coupled    *)
(* by the MPISend / MPIRecv / MPIBarrier operators of                      *)
(* src/mpi_sim/mpi_operator.cpp over a reliable, non-overtaking MPI        *)
(* transport, and driven by MpiSimulator::reset / run_n_steps.             *)
(*                                                                         *)
(* Numeric signal values (dtype) are abstracted to integers modulo NumVals.*)
(* A message carries, next to its value, the auxiliary field seq: the      *)
(* number of the MPISend invocation that produced it.  seq is history      *)
(* information only; no operator of the program reads it.                  *)
(***************************************************************************)
EXTENDS Integers, Sequences, FiniteSets, TLC

(***************************************************************************)
(* Bounds of the model.                                                    *)
(***************************************************************************)
MaxSteps == 2          \* largest argument of one run_n_steps call
MaxRuns == 2           \* run_n_steps calls per session
NumVals == 5           \* signal values are 0 .. NumVals-1
BARRIER_PERIOD == 2    \* stands for the (large) constant of mpi_operator.hpp
MaxOps == 3            \* operators added to the chunk of the ordering model
MaxIndex == 2          \* operator indices of the ordering model are 0 .. MaxIndex
MaxPeriod == 2         \* probe periods are 1 .. MaxPeriod
MaxProbeSteps == 2002  \* longest run of the probe model
MaxChannels == 2       \* logical send/recv channels from chunk A to chunk B
MaxMergedSteps == 3    \* longest run of the merged-communication model
MaxRecords == 3        \* build records rank 0 sends to the worker
MaxCalls == 3          \* build calls made on the chunk of the chunk-build model
NumWorkers == 2        \* worker ranks of the dispatch model (components 1 .. NumWorkers)

\* How frequently to flush the probe buffers, in units of number of steps.
FLUSH_PROBES_EVERY == 1000

Chunks == {0, 1}
Vals == 0 .. (NumVals - 1)
Undef == 0 - 1         \* content of a buffer from new dtype[size], never yet written

VARIABLES
    (* the build *)
    opIndex,        \* [chunk -> [operator kind -> index]] as given to add_op / add_mpi_*
    topo,           \* "ring": two processes, each sending to the other;
                    \* "self": one process (rank 0) whose MPISend is addressed to itself
    eager,          \* the transport buffers a send before its receive is posted
    operator_list,  \* [chunk -> sequence of operator kinds], as sorted by finalize_build
    (* signals of each chunk *)
    x,              \* content view of the chunk's MPISend
    y,              \* content view of the chunk's MPIRecv
    (* MPISend *)
    sendFirst, sendBuf, sendPending,
    (* MPIRecv *)
    recvFirst, recvBuf, recvPending,
    (* transport *)
    chan,           \* chan[c]: messages buffered by the transport on their way from c to Peer(c)
    (* MPIBarrier *)
    barStep, barArrive,
    (* the chunk's step loop *)
    pc, opIdx, stepsDone, time, probeBuf,
    (* MpiSimulator *)
    simPc, steps, probe_data,
    (* history *)
    hist,           \* per chunk: what each operator invocation saw and did
    runs,           \* one record per run_n_steps call
    resetFlag,      \* reset() was called since the last run_n_steps
    resetEvery,     \* every run_n_steps so far was directly preceded by a reset()
    (* the operator-ordering model *)
    ord,
    (* the probe model, the merged-communication model, the worker model *)
    prb, mrg, wrk,
    (* the chunk-build model, the dispatch model, the host-callback model and the
       model of the command-line entry point *)
    bld, dsp, pyf, cli

buildVars == <<opIndex, operator_list, topo, eager>>
sigVars == <<x, y>>
sendVars == <<sendFirst, sendBuf, sendPending>>
recvVars == <<recvFirst, recvBuf, recvPending>>
barVars == <<barStep, barArrive>>
loopVars == <<pc, opIdx, stepsDone, time, probeBuf>>
simVars == <<simPc, steps, probe_data, runs, resetFlag, resetEvery>>
commVars == <<buildVars, sigVars, sendVars, recvVars, chan, barVars, loopVars,
              simVars, hist>>
moreVars == <<bld, dsp, pyf, cli>>
sideVars == <<ord, prb, mrg, wrk, moreVars>>
vars == <<commVars, sideVars>>

\* the ranks of the communicator
Ranks == IF topo = "self" THEN {0} ELSE Chunks

\* dst of the chunk's MPISend and src of its MPIRecv
Peer(c) == IF topo = "self" THEN c ELSE 1 - c

(***************************************************************************)
(* Operator ordering: compare_op_ptr and the stable sort of finalize_build.*)
(***************************************************************************)
compare_op_ptr_le(left, right) == left.index <= right.index

compare_op_ptr(left, right) == left.index < right.index

RECURSIVE InsertSorted(_, _)
InsertSorted(s, op) ==
    IF s = <<>> THEN <<op>>
    ELSE IF compare_op_ptr(op, Head(s)) THEN <<op>> \o s
    ELSE <<Head(s)>> \o InsertSorted(Tail(s), op)

RECURSIVE SortOps(_)
SortOps(s) ==
    IF s = <<>> THEN <<>>
    ELSE InsertSorted(SortOps(SubSeq(s, 1, Len(s) - 1)), s[Len(s)])

Kinds(s) == [i \in 1 .. Len(s) |-> s[i].kind]

\* The communication build adds, per chunk, DotInc, MPISend, MPIRecv in this order.
AddOrder == <<"upd", "send", "recv">>
OpKinds == {"upd", "send", "recv"}
Placements == {f \in [OpKinds -> 1 .. 3] : \A a, b \in OpKinds : a # b => f[a] # f[b]}

Added(f) == [i \in 1 .. 3 |-> [kind |-> AddOrder[i], index |-> f[AddOrder[i]], id |-> i]]

\* finalize_build followed by the installation of the barrier at the end of the list.
Finalized(f) == Kinds(SortOps(Added(f))) \o <<"barrier">>

InitX(c) == c + 1
InitY(c) == 0

NoHist == [send |-> <<>>, recv |-> <<>>, recvSeq |-> <<>>, upd |-> 0, sendPosted |-> 0,
           recvPosted |-> 0, copies |-> 0, bar |-> <<>>]

Off == [phase |-> "off"]

OrdIdle == [phase |-> "off", ops |-> <<>>, operator_list |-> <<>>, pos |-> 0,
            trace |-> <<>>, done |-> <<>>]

MoreOff == bld = Off /\ dsp = Off /\ pyf = Off /\ cli = Off

\* the state of the chunks and of the simulator after construction
InitChunks ==
    /\ x = [c \in Chunks |-> InitX(c)]
    /\ y = [c \in Chunks |-> InitY(c)]
    /\ sendFirst = [c \in Chunks |-> TRUE]
    /\ recvFirst = [c \in Chunks |-> TRUE]
    /\ sendBuf = [c \in Chunks |-> [val |-> Undef, seq |-> 0]]
    /\ recvBuf = [c \in Chunks |-> [val |-> Undef, seq |-> 0]]
    /\ sendPending = [c \in Chunks |-> 0]
    /\ recvPending = [c \in Chunks |-> 0]
    /\ chan = [c \in Chunks |-> <<>>]
    /\ barStep = [c \in Chunks |-> 0]
    /\ barArrive = [c \in Chunks |-> 0]
    /\ pc = [c \in Chunks |-> "idle"]
    /\ opIdx = [c \in Chunks |-> 1]
    /\ stepsDone = [c \in Chunks |-> 0]
    /\ time = [c \in Chunks |-> 0]
    /\ probeBuf = [c \in Chunks |-> <<>>]
    /\ simPc = "idle"
    /\ steps = 0
    /\ probe_data = [c \in Chunks |-> <<>>]
    /\ hist = [c \in Chunks |-> NoHist]
    /\ runs = <<>>
    /\ resetFlag = FALSE
    /\ resetEvery = TRUE

\* the state after construction and finalize_build, for the build opIndex
InitRun ==
    /\ operator_list = [c \in Chunks |-> Finalized(opIndex[c])]
    /\ InitChunks

InitCommWith(P) ==
    /\ opIndex \in [Chunks -> P]
    /\ topo = "ring"
    /\ eager = TRUE
    /\ InitRun

Init ==
    /\ InitCommWith(Placements)
    /\ ord = OrdIdle /\ prb = Off /\ mrg = Off /\ wrk = Off /\ MoreOff


(***************************************************************************)
(* Helpers.                                                                *)
(***************************************************************************)
CurOp(c) ==
    IF pc[c] = "op" /\ opIdx[c] <= Len(operator_list[c])
    THEN operator_list[c][opIdx[c]] ELSE "none"

\* MpiSimulatorChunk::run_n_steps: on to the next operator of the step; after the last
\* one the probes sample, time += dt, and the loop goes on to the next step or, after
\* the last step, to the drain of the outstanding requests.
Advance(c) ==
    IF opIdx[c] < Len(operator_list[c])
    THEN /\ opIdx' = [opIdx EXCEPT ![c] = @ + 1]
         /\ pc' = [pc EXCEPT ![c] = "op"]
         /\ UNCHANGED <<stepsDone, time, probeBuf>>
    ELSE /\ probeBuf' = [probeBuf EXCEPT ![c] = Append(@, <<x'[c], y'[c]>>)]
         /\ time' = [time EXCEPT ![c] = @ + 1]
         /\ stepsDone' = [stepsDone EXCEPT ![c] = @ + 1]
         /\ opIdx' = [opIdx EXCEPT ![c] = 1]
         /\ pc' = [pc EXCEPT ![c] = IF stepsDone[c] + 1 = steps THEN "drain" ELSE "op"]

\* Reading a buffer that was never written yields an arbitrary value.
ReadBuf(b) == IF b.val = Undef THEN Vals ELSE {b.val}

(***************************************************************************)
(* MPISend::operator()                                                     *)
(***************************************************************************)
SendReadyNoWait(c) == TRUE

\* if(first_call) first_call = false; else MPI_Wait(&request, &status);
SendReady(c) == sendFirst[c] \/ sendPending[c] = 0

\* memcpy(buffer, content_data, size * sizeof(dtype));
SendCopy(c) == [val |-> x[c], seq |-> Len(hist[c].send) + 1]

PayloadFromSignal(c) == [val |-> x[c], seq |-> sendBuf[c].seq]

\* MPI_Isend(buffer, ...): the memory the transport reads the message from.
Payload(c) == sendBuf[c]

MPISend_step(c) ==
    /\ CurOp(c) = "send"
    /\ SendReady(c)
    /\ sendFirst' = [sendFirst EXCEPT ![c] = FALSE]
    /\ sendBuf' = [sendBuf EXCEPT ![c] = SendCopy(c)]
    /\ sendPending' = [sendPending EXCEPT ![c] = @ + 1]
    /\ hist' = [hist EXCEPT ![c].send = Append(@, x[c]),
                            ![c].sendPosted = @ + 1]
    /\ UNCHANGED <<buildVars, sigVars, recvVars, chan, barVars, simVars, sideVars>>
    /\ Advance(c)

(***************************************************************************)
(* MPIRecv::operator()                                                     *)
(***************************************************************************)
RecvReadyNoWait(c) == TRUE

\* if(first_call) first_call = false; else MPI_Wait(&request, &status);
RecvReady(c) == recvFirst[c] \/ recvPending[c] = 0

RecvCopiesNever(c) == FALSE

RecvCopiesAlways(c) == TRUE

RecvCopiesNotAtRunStart(c) == ~recvFirst[c] /\ stepsDone[c] > 0

\* the memcpy(content_data, buffer, ...) is in the else branch of if(first_call)
RecvCopies(c) == ~recvFirst[c]

RecvPostsFirstOnly(c) == recvFirst[c]

\* MPI_Irecv(buffer, ...) follows the if: every invocation posts a receive
RecvPosts(c) == TRUE

MPIRecv_step(c) ==
    /\ CurOp(c) = "recv"
    /\ RecvReady(c)
    /\ \E v \in (IF RecvCopies(c) THEN ReadBuf(recvBuf[c]) ELSE {y[c]}) :
          /\ y' = [y EXCEPT ![c] = v]
          /\ hist' = [hist EXCEPT
                 ![c].recv = Append(@, v),
                 ![c].recvSeq = Append(@, IF RecvCopies(c) THEN recvBuf[c].seq ELSE 0),
                 ![c].copies = @ + (IF RecvCopies(c) THEN 1 ELSE 0),
                 ![c].recvPosted = @ + (IF RecvPosts(c) THEN 1 ELSE 0)]
    /\ recvFirst' = [recvFirst EXCEPT ![c] = FALSE]
    /\ recvPending' = [recvPending EXCEPT ![c] = @ + (IF RecvPosts(c) THEN 1 ELSE 0)]
    /\ UNCHANGED <<buildVars, x, sendVars, recvBuf, chan, barVars, simVars, sideVars>>
    /\ Advance(c)

(***************************************************************************)
(* The transport: MPI_Isend / MPI_Irecv progress.  A posted send completes *)
(* when the transport has read its buffer; a posted receive completes when *)
(* the oldest message of the channel has been written into its buffer.     *)
(***************************************************************************)
TransportNeverReady(c) == FALSE

\* A send completes once the transport has taken the message out of its buffer: at
\* any time if it buffers (eager), else only for a receive that is already posted.
TransportReady(c) == eager \/ Len(chan[c]) < recvPending[Peer(c)]

MPI_TransferOut(c) ==
    /\ sendPending[c] > 0
    /\ TransportReady(c)
    /\ chan' = [chan EXCEPT ![c] = Append(@, Payload(c))]
    /\ sendPending' = [sendPending EXCEPT ![c] = @ - 1]
    /\ UNCHANGED <<buildVars, sigVars, sendFirst, sendBuf, recvVars, barVars, loopVars,
                   simVars, hist, sideVars>>

MPI_Deliver(c) ==
    /\ recvPending[c] > 0
    /\ chan[Peer(c)] # <<>>
    /\ recvBuf' = [recvBuf EXCEPT ![c] = Head(chan[Peer(c)])]
    /\ chan' = [chan EXCEPT ![Peer(c)] = Tail(@)]
    /\ recvPending' = [recvPending EXCEPT ![c] = @ - 1]
    /\ UNCHANGED <<buildVars, sigVars, sendVars, recvFirst, barVars, loopVars,
                   simVars, hist, sideVars>>

(***************************************************************************)
(* DotInc(A = [1], X = y, Y = x):  x += y                                  *)
(***************************************************************************)
DotInc_step(c) ==
    /\ CurOp(c) = "upd"
    /\ x' = [x EXCEPT ![c] = (x[c] + y[c]) % NumVals]
    /\ hist' = [hist EXCEPT ![c].upd = @ + 1]
    /\ UNCHANGED <<buildVars, y, sendVars, recvVars, chan, barVars, simVars, sideVars>>
    /\ Advance(c)

(***************************************************************************)
(* MPIBarrier::operator()                                                  *)
(***************************************************************************)
BarrierDueEveryPeriod(s) == s % BARRIER_PERIOD = 0

\* if(step != 0 && step % BARRIER_PERIOD == 0)
BarrierDue(s) == s # 0 /\ s % BARRIER_PERIOD = 0

BarrierGroupSelf(c) == {c}

\* new MPIBarrier(comm): the barrier is collective over the communicator of all ranks
BarrierGroup(c) == Ranks

MPIBarrier_step(c) ==
    /\ CurOp(c) = "barrier"
    /\ UNCHANGED <<buildVars, sigVars, sendVars, recvVars, chan, simVars, sideVars>>
    /\ IF BarrierDue(barStep[c])
       THEN /\ barArrive' = [barArrive EXCEPT ![c] = @ + 1]
            /\ pc' = [pc EXCEPT ![c] = "inbarrier"]
            /\ UNCHANGED <<barStep, opIdx, hist, stepsDone, time, probeBuf>>
       ELSE /\ barStep' = [barStep EXCEPT ![c] = @ + 1]
            /\ hist' = [hist EXCEPT ![c].bar = Append(@, FALSE)]
            /\ UNCHANGED barArrive
            /\ Advance(c)

\* MPI_Barrier(comm) returns once every rank of comm has entered it; then step++.
MPIBarrier_return(c) ==
    /\ pc[c] = "inbarrier"
    /\ \A d \in BarrierGroup(c) : barArrive[d] >= barArrive[c]
    /\ barStep' = [barStep EXCEPT ![c] = @ + 1]
    /\ hist' = [hist EXCEPT ![c].bar = Append(@, TRUE)]
    /\ UNCHANGED <<buildVars, sigVars, sendVars, recvVars, chan, barArrive, simVars, sideVars>>
    /\ Advance(c)

(***************************************************************************)
(* MpiSimulatorChunk::run_n_steps: the drain after the last step.          *)
(***************************************************************************)
\* MPISend::complete / MPIRecv::complete: MPI_Wait on the last request of each.
DrainReadyNoWait(c) == TRUE

DrainReady(c) == sendPending[c] = 0 /\ recvPending[c] = 0

Drain(c) ==
    /\ pc[c] = "drain"
    /\ DrainReady(c)
    /\ pc' = [pc EXCEPT ![c] = "done"]
    /\ UNCHANGED <<buildVars, sigVars, sendVars, recvVars, chan, barVars, opIdx,
                   stepsDone, time, probeBuf, simVars, hist, sideVars>>

(***************************************************************************)
(* MpiSimulator                                                            *)
(***************************************************************************)
\* run_n_steps(k): the step count is broadcast and every chunk runs k steps.
LoopEntryDoWhile(k) == "op"

\* for(s = 0; s < k; s++): with k = 0 the loop body is never entered
LoopEntry(k) == IF k = 0 THEN "drain" ELSE "op"

run_n_steps(k) ==
    /\ simPc = "idle"
    /\ Len(runs) < MaxRuns
    /\ simPc' = "running"
    /\ steps' = k
    /\ pc' = [c \in Chunks |-> IF c \in Ranks THEN LoopEntry(k) ELSE pc[c]]
    /\ opIdx' = [c \in Chunks |-> 1]
    /\ stepsDone' = [c \in Chunks |-> 0]
    /\ runs' = Append(runs, [k |-> k, done |-> FALSE,
                             samples |-> [c \in Chunks |-> <<>>]])
    /\ resetFlag' = FALSE
    /\ resetEvery' = (resetEvery /\ resetFlag)
    /\ UNCHANGED <<buildVars, sigVars, sendVars, recvVars, chan, barVars, time,
                   probeBuf, probe_data, hist, sideVars>>

\* the tail of run_n_steps: the probe data of the run is gathered
FinishRun ==
    /\ simPc = "running"
    /\ \A c \in Ranks : pc[c] = "done"
    /\ simPc' = "idle"
    /\ pc' = [c \in Chunks |-> "idle"]
    /\ probe_data' = [c \in Chunks |-> probe_data[c] \o probeBuf[c]]
    /\ probeBuf' = [c \in Chunks |-> <<>>]
    /\ runs' = [runs EXCEPT ![Len(runs)].done = TRUE,
                            ![Len(runs)].samples = probeBuf]
    /\ UNCHANGED <<buildVars, sigVars, sendVars, recvVars, chan, barVars, opIdx,
                   stepsDone, time, steps, resetFlag, resetEvery, hist, sideVars>>

\* void MpiSimulator::reset(){ // TODO ... }: the body is empty.
reset ==
    /\ simPc = "idle"
    /\ ~resetFlag
    /\ resetFlag' = TRUE
    /\ UNCHANGED <<buildVars, sigVars, sendVars, recvVars, chan, barVars, loopVars,
                   simPc, steps, probe_data, runs, resetEvery, hist, sideVars>>

Next ==
    \/ reset
    \/ \E k \in 0 .. MaxSteps : run_n_steps(k)
    \/ FinishRun
    \/ \E c \in Chunks : MPISend_step(c)
    \/ \E c \in Chunks : MPIRecv_step(c)
    \/ \E c \in Chunks : DotInc_step(c)
    \/ \E c \in Chunks : MPIBarrier_step(c)
    \/ \E c \in Chunks : MPIBarrier_return(c)
    \/ \E c \in Chunks : Drain(c)
    \/ \E c \in Chunks : MPI_TransferOut(c)
    \/ \E c \in Chunks : MPI_Deliver(c)

Spec == Init /\ [][Next]_vars

(***************************************************************************)
(* The operator-ordering model: one chunk, built by add_op / add_mpi_send  *)
(* / add_mpi_recv with arbitrary indices, finalized, then stepped.  An     *)
(* operator is [kind, index, id], id being its place in insertion order;   *)
(* trace is the ids executed so far in the current step, done the traces   *)
(* of the completed steps.                                                 *)
(***************************************************************************)
Canonical == [k \in OpKinds |-> CASE k = "recv" -> 1 [] k = "upd" -> 2 [] k = "send" -> 3]

InitOrder ==
    /\ InitCommWith({Canonical})
    /\ ord = [OrdIdle EXCEPT !.phase = "build"]
    /\ prb = Off /\ mrg = Off /\ wrk = Off /\ MoreOff

AddOperator(kind, index) ==
    /\ ord.phase = "build"
    /\ Len(ord.ops) < MaxOps
    /\ ord' = [ord EXCEPT !.ops = Append(@, [kind |-> kind, index |-> index,
                                             id |-> Len(ord.ops) + 1])]
    /\ UNCHANGED <<commVars, prb, mrg, wrk, moreVars>>

add_op(index) == AddOperator("op", index)

add_mpi_send(index) == AddOperator("send", index)

add_mpi_recv(index) == AddOperator("recv", index)

finalize_build ==
    /\ ord.phase = "build"
    /\ ord' = [ord EXCEPT !.phase = "run", !.operator_list = SortOps(ord.ops), !.pos = 1]
    /\ UNCHANGED <<commVars, prb, mrg, wrk, moreVars>>

\* the step loop invokes the operator at the current position of operator_list
StepOperator ==
    /\ ord.phase = "run"
    /\ ord.pos <= Len(ord.operator_list)
    /\ ord' = [ord EXCEPT !.trace = Append(@, ord.operator_list[ord.pos].id),
                          !.pos = @ + 1]
    /\ UNCHANGED <<commVars, prb, mrg, wrk, moreVars>>

StepEnd ==
    /\ ord.phase = "run"
    /\ ord.pos > Len(ord.operator_list)
    /\ Len(ord.done) < MaxSteps
    /\ ord' = [ord EXCEPT !.done = Append(@, ord.trace), !.trace = <<>>, !.pos = 1]
    /\ UNCHANGED <<commVars, prb, mrg, wrk, moreVars>>

NextOrder ==
    \/ \E i \in 0 .. MaxIndex : add_op(i)
    \/ \E i \in 0 .. MaxIndex : add_mpi_send(i)
    \/ \E i \in 0 .. MaxIndex : add_mpi_recv(i)
    \/ finalize_build
    \/ StepOperator
    \/ StepEnd

SpecOrder == InitOrder /\ [][NextOrder]_vars

(***************************************************************************)
(* The probe model: one chunk with one signal a, two operators that each   *)
(* increment it, and one probe on a.  Each step runs the operators in      *)
(* order, then the probe samples, time advances and the probes are flushed *)
(* when due; the end of the run flushes once more.  The step count k of    *)
(* run_n_steps is not stored: the loop test s < k is resolved when it is   *)
(* reached, so that the runs of all k share their common prefix.           *)
(* A buffer entry is [alias, val, step]: val is the copied tensor, alias   *)
(* tells whether the entry is the signal itself instead of a copy, and     *)
(* step (history only) is the 1-based step that took it.                   *)
(***************************************************************************)
ProbeOps == <<"inc", "inc">>

SampleDueOneBased(t, period) == (t + 1) % period = 0

\* Probe: on step t, if t % period == 0, a sample is taken
SampleDue(t, period) == t % period = 0

ProbeAlias(v, step) == [alias |-> TRUE, val |-> v, step |-> step]

\* the sample is a fresh copy of the target view
ProbeCopy(v, step) == [alias |-> FALSE, val |-> v, step |-> step]

FlushDueZeroBased(s) == s % FLUSH_PROBES_EVERY = 0

\* if (step_counter + 1) mod FLUSH_PROBES_EVERY == 0, flush probes
FlushDue(s) == (s + 1) % FLUSH_PROBES_EVERY = 0

BufferKept(b) == b

\* flush: the buffer is handed to the log sink and cleared
BufferAfterFlush(b) == <<>>

\* MpiSimulatorChunk::flush_probes
flush_probes(q) == [q EXCEPT !.sink = Append(@, q.buffer),
                             !.buffer = BufferAfterFlush(q.buffer)]

\* get_probe_data: the value read from a stored sample
SampleValue(e) == IF e.alias THEN prb.a ELSE e.val

InitProbe ==
    /\ InitCommWith({Canonical})
    /\ ord = OrdIdle /\ mrg = Off /\ wrk = Off /\ MoreOff
    /\ prb = [phase |-> "build", period |-> 1, a |-> 0, pos |-> 1, s |-> 0, time |-> 0,
              buffer |-> <<>>, sink |-> <<>>, flushAt |-> <<>>]

create_Probe(period) ==
    /\ prb.phase = "build"
    /\ prb' = [prb EXCEPT !.phase = "ready", !.period = period]
    /\ UNCHANGED <<commVars, ord, mrg, wrk, moreVars>>

\* run_n_steps is called: the loop starts at step 0
probe_run_begin ==
    /\ prb.phase = "ready"
    /\ prb' = [prb EXCEPT !.phase = "run"]
    /\ UNCHANGED <<commVars, ord, mrg, wrk, moreVars>>

\* Probe: the sample of step t (0-based), taken if due
gather(q) ==
    IF SampleDue(q.s, q.period)
    THEN [q EXCEPT !.buffer = Append(@, ProbeCopy(q.a, q.s + 1))]
    ELSE q

\* the end of a step, after its last operator: probes sample, time += dt, flush if due
ProbeEndOfStep(q) ==
    IF FlushDue(q.s)
    THEN [flush_probes(gather(q)) EXCEPT !.pos = 1, !.s = @ + 1, !.time = @ + 1,
                                         !.flushAt = Append(@, q.s + 1)]
    ELSE [gather(q) EXCEPT !.pos = 1, !.s = @ + 1, !.time = @ + 1]

\* one operator of the step; the last one is followed by the end of the step
probe_step_op ==
    /\ prb.phase = "run"
    /\ prb.pos > 1 \/ prb.s < MaxProbeSteps
    /\ prb' = IF prb.pos < Len(ProbeOps)
              THEN [prb EXCEPT !.a = (@ + 1) % NumVals, !.pos = @ + 1]
              ELSE ProbeEndOfStep([prb EXCEPT !.a = (@ + 1) % NumVals])
    /\ UNCHANGED <<commVars, ord, mrg, wrk, moreVars>>

\* the loop ends after s = k steps: the probes are flushed a last time
probe_run_end ==
    /\ prb.phase = "run"
    /\ prb.pos = 1
    /\ prb' = [flush_probes(prb) EXCEPT !.phase = "done"]
    /\ UNCHANGED <<commVars, ord, mrg, wrk, moreVars>>

NextProbe ==
    \/ \E period \in 1 .. MaxPeriod : create_Probe(period)
    \/ probe_run_begin
    \/ probe_step_op
    \/ probe_run_end

SpecProbe == InitProbe /\ [][NextProbe]_vars

(***************************************************************************)
(* The merged-communication model.  Chunk A holds, per logical channel t    *)
(* (the tag), a signal x_t, a writer of x_t and a send of x_t to chunk B;   *)
(* chunk B holds per channel a receive into y_t and a reader of y_t, and a  *)
(* probe on the y.  The channels are added in any order on either side.     *)
(* With mpi_merged the sends to B become one composite send whose buffer is *)
(* the concatenation of the x_t, and the receives from A one composite      *)
(* receive that scatters its buffer to the y_t.  Both kinds of operator     *)
(* follow the protocol of MPISend / MPIRecv.                                *)
(*                                                                         *)
(* An entry of merged_sends / merged_recvs is a pair [first, second]: the   *)
(* tag and the view; index is the operator index given to add_mpi_*.        *)
(***************************************************************************)
compare_first_lt(left, right) == left.first < right.first

RECURSIVE InsertByFirst(_, _)
InsertByFirst(s, e) ==
    IF s = <<>> THEN <<e>>
    ELSE IF compare_first_lt(e, Head(s)) THEN <<e>> \o s
    ELSE <<Head(s)>> \o InsertByFirst(Tail(s), e)

RECURSIVE SortByFirst(_)
SortByFirst(s) ==
    IF s = <<>> THEN <<>>
    ELSE InsertByFirst(SortByFirst(SubSeq(s, 1, Len(s) - 1)), s[Len(s)])

MinOf(S) == CHOOSE m \in S : \A n \in S : m <= n
MaxOf(S) == CHOOSE m \in S : \A n \in S : m >= n

PlanInsertionOrder(entries) == entries

\* the segments of a merged buffer are in ascending order of tag on both sides
PlanOrder(entries) == SortByFirst(entries)

UsesMergedPlanNever(merged) == FALSE

\* the per-peer maps are used only if mpi_merged is true
UsesMergedPlan(merged) == merged

MergedSendIndexEarliest(entries) == MinOf({entries[i].index : i \in 1 .. Len(entries)})

\* send_indices: the composite send goes to the latest index of its members
MergedSendIndex(entries) == MaxOf({entries[i].index : i \in 1 .. Len(entries)})

\* recv_indices: the composite receive goes to the earliest index of its members
MergedRecvIndex(entries) == MinOf({entries[i].index : i \in 1 .. Len(entries)})

\* send_tags / recv_tags: the tag of the composite operator
MergedTag(entries) == MinOf({entries[i].first : i \in 1 .. Len(entries)})

\* add_mpi_send / add_mpi_recv for the channels in add order: the entry of the i-th
\* channel added has index 2i, its writer on A (its reader on B) is next to it
SendEntries(add) == [i \in 1 .. Len(add) |-> [first |-> add[i], second |-> add[i],
                                               index |-> 2 * i]]
RecvEntries(add) == [i \in 1 .. Len(add) |-> [first |-> add[i], second |-> add[i],
                                               index |-> 2 * i - 1]]

\* the communication operators of finalize_build: one per peer if merged, else one
\* per entry.  An operator is [kind, index, tag, segs].
CommOps(kind, merged, entries, index) ==
    IF UsesMergedPlan(merged)
    THEN << [kind |-> kind, index |-> index, tag |-> MergedTag(entries),
             segs |-> PlanOrder(entries)] >>
    ELSE [i \in 1 .. Len(entries) |->
             [kind |-> kind, index |-> entries[i].index, tag |-> entries[i].first,
              segs |-> <<entries[i]>>]]

AOps(merged, add) ==
    SortOps([i \in 1 .. Len(add) |->
                [kind |-> "write", index |-> 2 * i - 1, tag |-> add[i], segs |-> <<>>]]
            \o CommOps("send", merged, SendEntries(add), MergedSendIndex(SendEntries(add))))

BOps(merged, add) ==
    SortOps(CommOps("recv", merged, RecvEntries(add), MergedRecvIndex(RecvEntries(add)))
            \o [i \in 1 .. Len(add) |->
                   [kind |-> "read", index |-> 2 * i, tag |-> add[i], segs |-> <<>>]])

Perms(n) == {f \in [1 .. n -> 1 .. n] : \A i, j \in 1 .. n : i # j => f[i] # f[j]}

OpTags(ops, kind) == {ops[i].tag : i \in {j \in 1 .. Len(ops) : ops[j].kind = kind}}

InitMerged ==
    /\ InitCommWith({Canonical})
    /\ ord = OrdIdle /\ prb = Off /\ wrk = Off /\ MoreOff
    /\ \E n \in 1 .. MaxChannels : \E sa \in Perms(n) : \E ra \in Perms(n) :
       \E merged \in BOOLEAN : \E k \in 1 .. MaxMergedSteps :
          mrg = [phase |-> "run", merged |-> merged, k |-> k, sendAdd |-> sa, recvAdd |-> ra,
                 aOps |-> AOps(merged, sa), bOps |-> BOps(merged, ra),
                 ax |-> [t \in 1 .. n |-> t], by |-> [t \in 1 .. n |-> 0],
                 aPc |-> "op", bPc |-> "op", aPos |-> 1, bPos |-> 1,
                 aStep |-> 0, bStep |-> 0,
                 snd |-> [g \in OpTags(AOps(merged, sa), "send") |->
                             [first_call |-> TRUE, buffer |-> <<>>, pending |-> 0]],
                 rcv |-> [g \in OpTags(BOps(merged, ra), "recv") |->
                             [first_call |-> TRUE, buffer |-> <<>>, pending |-> 0]],
                 chan |-> [g \in OpTags(AOps(merged, sa), "send") |-> <<>>],
                 posts |-> 0, postsPerStep |-> <<>>, reads |-> <<>>, samples |-> <<>>]

\* chunk A: on to the next operator; after the last one the step ends
AdvanceA(q) ==
    IF q.aPos < Len(q.aOps) THEN [q EXCEPT !.aPos = @ + 1]
    ELSE [q EXCEPT !.aPos = 1, !.aStep = @ + 1,
                   !.postsPerStep = Append(@, q.posts), !.posts = 0,
                   !.aPc = IF q.aStep + 1 = q.k THEN "drain" ELSE "op"]

\* chunk B: on to the next operator; after the last one the probe samples the y
AdvanceB(q) ==
    IF q.bPos < Len(q.bOps) THEN [q EXCEPT !.bPos = @ + 1]
    ELSE [q EXCEPT !.bPos = 1, !.bStep = @ + 1,
                   !.samples = Append(@, q.by),
                   !.bPc = IF q.bStep + 1 = q.k THEN "drain" ELSE "op"]

\* the writer of x_t
chunkA_write ==
    /\ mrg.phase = "run" /\ mrg.aPc = "op"
    /\ mrg.aOps[mrg.aPos].kind = "write"
    /\ mrg' = AdvanceA([mrg EXCEPT !.ax[mrg.aOps[mrg.aPos].tag] =
                                       (@ + mrg.aOps[mrg.aPos].tag) % NumVals])
    /\ UNCHANGED <<commVars, ord, prb, wrk, moreVars>>

\* the send operator (of one channel, or the composite one): wait unless first
\* call, gather the views into the buffer, post the send
chunkA_send ==
    /\ mrg.phase = "run" /\ mrg.aPc = "op"
    /\ mrg.aOps[mrg.aPos].kind = "send"
    /\ \E op \in {mrg.aOps[mrg.aPos]} :
          /\ mrg.snd[op.tag].first_call \/ mrg.snd[op.tag].pending = 0
          /\ mrg' = AdvanceA([mrg EXCEPT
                 !.snd[op.tag] = [first_call |-> FALSE,
                                  buffer |-> [i \in 1 .. Len(op.segs) |->
                                                 mrg.ax[op.segs[i].second]],
                                  pending |-> @.pending + 1],
                 !.posts = @ + 1])
    /\ UNCHANGED <<commVars, ord, prb, wrk, moreVars>>

\* the receive operator: unless first call, wait and scatter the buffer to the
\* views; post the receive
chunkB_recv ==
    /\ mrg.phase = "run" /\ mrg.bPc = "op"
    /\ mrg.bOps[mrg.bPos].kind = "recv"
    /\ \E op \in {mrg.bOps[mrg.bPos]} :
          /\ mrg.rcv[op.tag].first_call \/ mrg.rcv[op.tag].pending = 0
          /\ mrg' = AdvanceB([mrg EXCEPT
                 !.by = IF mrg.rcv[op.tag].first_call THEN @
                        ELSE [t \in DOMAIN @ |->
                                 IF \E i \in 1 .. Len(op.segs) : op.segs[i].second = t
                                 THEN mrg.rcv[op.tag].buffer[
                                          CHOOSE i \in 1 .. Len(op.segs) :
                                              op.segs[i].second = t]
                                 ELSE @[t]],
                 !.rcv[op.tag].first_call = FALSE,
                 !.rcv[op.tag].pending = @ + 1])
    /\ UNCHANGED <<commVars, ord, prb, wrk, moreVars>>

\* the reader of y_t
chunkB_read ==
    /\ mrg.phase = "run" /\ mrg.bPc = "op"
    /\ mrg.bOps[mrg.bPos].kind = "read"
    /\ mrg' = AdvanceB([mrg EXCEPT
           !.reads = Append(@, [step |-> mrg.bStep + 1, tag |-> mrg.bOps[mrg.bPos].tag,
                                val |-> mrg.by[mrg.bOps[mrg.bPos].tag]])])
    /\ UNCHANGED <<commVars, ord, prb, wrk, moreVars>>

\* the transport takes a posted message from the send buffer
merged_transfer(g) ==
    /\ mrg.phase = "run"
    /\ mrg.snd[g].pending > 0
    /\ mrg' = [mrg EXCEPT !.snd[g].pending = @ - 1,
                          !.chan[g] = Append(@, mrg.snd[g].buffer)]
    /\ UNCHANGED <<commVars, ord, prb, wrk, moreVars>>

\* the transport writes the oldest message of the tag into the posted receive buffer
merged_deliver(g) ==
    /\ mrg.phase = "run"
    /\ g \in DOMAIN mrg.rcv
    /\ mrg.rcv[g].pending > 0
    /\ mrg.chan[g] # <<>>
    /\ mrg' = [mrg EXCEPT !.rcv[g].pending = @ - 1,
                          !.rcv[g].buffer = Head(mrg.chan[g]),
                          !.chan[g] = Tail(@)]
    /\ UNCHANGED <<commVars, ord, prb, wrk, moreVars>>

\* after the last step: complete() on every communication operator
chunkA_drain ==
    /\ mrg.phase = "run" /\ mrg.aPc = "drain"
    /\ \A g \in DOMAIN mrg.snd : mrg.snd[g].pending = 0
    /\ mrg' = [mrg EXCEPT !.aPc = "done"]
    /\ UNCHANGED <<commVars, ord, prb, wrk, moreVars>>

chunkB_drain ==
    /\ mrg.phase = "run" /\ mrg.bPc = "drain"
    /\ \A g \in DOMAIN mrg.rcv : mrg.rcv[g].pending = 0
    /\ mrg' = [mrg EXCEPT !.bPc = "done"]
    /\ UNCHANGED <<commVars, ord, prb, wrk, moreVars>>

NextMerged ==
    \/ chunkA_write
    \/ chunkA_send
    \/ chunkB_recv
    \/ chunkB_read
    \/ \E g \in DOMAIN mrg.snd : merged_transfer(g)
    \/ \E g \in DOMAIN mrg.snd : merged_deliver(g)
    \/ chunkA_drain
    \/ chunkB_drain

SpecMerged == InitMerged /\ [][NextMerged]_vars

(***************************************************************************)
(* The worker model: start_worker.  Rank 0 sends, all with setup_tag, the  *)
(* chunk label and dt and then build records: a flag followed by the parts *)
(* of the record.  wire is the sequence of these messages not yet received *)
(* (messages from one source with one tag do not overtake).  The worker    *)
(* receives them one blocking receive at a time.  sent (the flags rank 0   *)
(* has sent) and misread (a receive got a message of another kind than it  *)
(* asked for) are history only.                                            *)
(***************************************************************************)
add_signal_flag == 1
add_op_flag == 2
add_probe_flag == 3
stop_flag == 4

AddFlags == {add_signal_flag, add_op_flag, add_probe_flag}

\* what rank 0 may put on the wire as a flag: the four flags and an invalid one
Flags == add_signal_flag .. (stop_flag + 1)

PartsOfUniform(s) == <<"key", "string", "matrix">>

\* the receives that follow the flag s in the loop of start_worker
PartsOf(s) ==
    CASE s = add_signal_flag -> <<"key", "string", "matrix">>
      [] s = add_op_flag -> <<"string">>
      [] s = add_probe_flag -> <<"key", "string", "int">>
      [] OTHER -> <<>>

\* the parts of a record as rank 0 sends them after the flag s
MasterParts(s) ==
    CASE s = add_signal_flag -> <<"key", "string", "matrix">>
      [] s = add_op_flag -> <<"string">>
      [] s = add_probe_flag -> <<"key", "string", "int">>
      [] OTHER -> <<>>

\* what the string of an add_op record may describe: a plain operator, an MPISend
\* or an MPIRecv
OpStrings == {"op", "send", "recv"}

\* the messages of one record as rank 0 sends them; str is the op_string of an
\* add_op record
RecordMessages(s, rec, str) ==
    <<[kind |-> "int", val |-> s, rec |-> rec, str |-> ""]>>
    \o [i \in 1 .. Len(MasterParts(s)) |->
           [kind |-> MasterParts(s)[i], val |-> 0, rec |-> rec,
            str |-> IF s = add_op_flag THEN str ELSE ""]]

\* chunk.add_op(op_string): the operator goes to the end of the operator list; an
\* MPISend / MPIRecv is also kept in mpi_sends / mpi_recvs and has no communicator yet
chunk_add_op(ops, str) ==
    Append(ops, [kind |-> str, bound |-> str \notin {"send", "recv"}])

set_communicator_sends_only(ops) ==
    [i \in 1 .. Len(ops) |-> IF ops[i].kind = "send" THEN [ops[i] EXCEPT !.bound = TRUE]
                              ELSE ops[i]]

\* the two loops over chunk.mpi_sends and chunk.mpi_recvs: set_communicator(comm)
set_communicator(ops) ==
    [i \in 1 .. Len(ops) |-> IF ops[i].kind \in {"send", "recv"}
                              THEN [ops[i] EXCEPT !.bound = TRUE] ELSE ops[i]]

add_barrier_first(ops) == <<[kind |-> "barrier", bound |-> TRUE]>> \o ops

\* MPIBarrier* mpi_barrier = new MPIBarrier(comm); chunk.add_op(mpi_barrier);
add_barrier(ops) == Append(ops, [kind |-> "barrier", bound |-> TRUE])

\* chunk.add_probe(probe_key, signal_string, period): a probe with no data yet
chunk_add_probe(probes, key) == Append(probes, [key |-> key, data |-> <<>>, cap |-> 0])

\* the end of a step: every probe takes a sample (the number of the step stands
\* for the sampled matrix)
Sampled(probes, t) ==
    [i \in 1 .. Len(probes) |-> [probes[i] EXCEPT !.data = Append(@, t), !.cap = @ + 1]]

ProbeMessagesCountFirst(p) ==
    <<[kind |-> "int", val |-> Len(p.data)], [kind |-> "key", val |-> p.key]>>
    \o [i \in 1 .. Len(p.data) |-> [kind |-> "matrix", val |-> p.data[i]]]

\* what one pass of the loop over chunk.probe_map sends to rank 0 with probe_tag:
\* send_key, send_int(probe_data.size()), send_matrix for each element of probe_data
ProbeMessages(p) ==
    <<[kind |-> "key", val |-> p.key], [kind |-> "int", val |-> Len(p.data)]>>
    \o [i \in 1 .. Len(p.data) |-> [kind |-> "matrix", val |-> p.data[i]]]

\* probe_it->second->clear(true): the data is dropped and its storage released
clear(p, hard) == [p EXCEPT !.data = <<>>, !.cap = IF hard THEN 0 ELSE @]

\* the ranks of comm other than the worker (rank 1): rank 0 and the other workers
OtherRanks == (0 .. NumWorkers) \ {1}

\* the phases of start_worker after chunk.run_n_steps has returned
PostRunPhases == {"finished", "post_barrier", "ship", "final_barrier", "finalize"}

InitWorker ==
    /\ InitCommWith({Canonical})
    /\ ord = OrdIdle /\ prb = Off /\ mrg = Off /\ MoreOff
    /\ wrk = [phase |-> "label", hello |-> FALSE, wire |-> <<>>, sent |-> <<>>,
              cur |-> 0, rec |-> 0, need |-> <<>>, applied |-> <<>>, barrier |-> FALSE,
              bcast |-> Undef, steps |-> Undef, stepsRun |-> 0, misread |-> FALSE,
              ops |-> <<>>, pos |-> 1, trace |-> <<>>, done |-> <<>>, unbound |-> FALSE,
              probes |-> <<>>, pidx |-> 1, ppos |-> 1, shipped |-> <<>>,
              bar1 |-> {}, bar2 |-> {}]

\* rank 0: the chunk label and dt
master_hello ==
    /\ wrk.phase # "off"
    /\ ~wrk.hello
    /\ wrk' = [wrk EXCEPT !.hello = TRUE,
                          !.wire = @ \o <<[kind |-> "string", val |-> 0, rec |-> 0, str |-> ""],
                                          [kind |-> "float", val |-> 0, rec |-> 0, str |-> ""]>>]
    /\ UNCHANGED <<commVars, ord, prb, mrg, moreVars>>

\* rank 0: one more record
master_send(s, str) ==
    /\ wrk.phase # "off"
    /\ wrk.hello
    /\ Len(wrk.sent) < MaxRecords
    /\ wrk' = [wrk EXCEPT !.sent = Append(@, s),
                          !.wire = @ \o RecordMessages(s, Len(wrk.sent) + 1, str)]
    /\ UNCHANGED <<commVars, ord, prb, mrg, moreVars>>

\* rank 0: MPI_Bcast of the step count
master_bcast(k) ==
    /\ wrk.phase # "off"
    /\ wrk.bcast = Undef
    /\ wrk' = [wrk EXCEPT !.bcast = k]
    /\ UNCHANGED <<commVars, ord, prb, mrg, moreVars>>

\* string chunk_label = recv_string(0, setup_tag, comm);
worker_recv_label ==
    /\ wrk.phase = "label"
    /\ wrk.wire # <<>>
    /\ wrk' = [wrk EXCEPT !.phase = "dt", !.wire = Tail(@),
                          !.misread = @ \/ Head(wrk.wire).kind # "string"]
    /\ UNCHANGED <<commVars, ord, prb, mrg, moreVars>>

\* float dt = recv_float(0, setup_tag, comm); MpiSimulatorChunk chunk(chunk_label, dt);
worker_recv_dt ==
    /\ wrk.phase = "dt"
    /\ wrk.wire # <<>>
    /\ wrk' = [wrk EXCEPT !.phase = "flag", !.wire = Tail(@),
                          !.misread = @ \/ Head(wrk.wire).kind # "float"]
    /\ UNCHANGED <<commVars, ord, prb, mrg, moreVars>>

FlagBranchSkipsInvalid(s) ==
    IF s \in AddFlags THEN "parts" ELSE IF s = stop_flag THEN "bcast" ELSE "flag"

\* the if / else if chain on s: the receives of the record, the break on stop_flag,
\* or throw runtime_error("Worker received invalid flag from master.")
FlagBranch(s) ==
    IF s \in AddFlags THEN "parts" ELSE IF s = stop_flag THEN "bcast" ELSE "error"

\* s = recv_int(0, setup_tag, comm) and the branch on s.  On stop_flag the loop is
\* left, the communicators are set and the barrier operator is added; then the
\* worker waits in MPI_Bcast.
worker_recv_flag ==
    /\ wrk.phase = "flag"
    /\ wrk.wire # <<>>
    /\ \E m \in {Head(wrk.wire)} :
          wrk' = [wrk EXCEPT
              !.wire = Tail(@),
              !.misread = @ \/ m.kind # "int",
              !.cur = m.val,
              !.rec = m.rec,
              !.need = IF m.val \in AddFlags THEN PartsOf(m.val) ELSE <<>>,
              !.phase = FlagBranch(m.val),
              !.ops = IF m.val = stop_flag THEN add_barrier(set_communicator(@)) ELSE @,
              !.barrier = (m.val = stop_flag)]
    /\ UNCHANGED <<commVars, ord, prb, mrg, moreVars>>

\* one receive of a part of the record; after the last one the record is applied
\* to the chunk (add_base_signal / add_op / add_probe)
worker_recv_part ==
    /\ wrk.phase = "parts"
    /\ wrk.wire # <<>>
    /\ wrk' = [wrk EXCEPT
          !.wire = Tail(@),
          !.misread = @ \/ Head(wrk.wire).kind # Head(wrk.need),
          !.need = Tail(@),
          !.applied = IF Len(wrk.need) = 1
                      THEN Append(@, [flag |-> wrk.cur, rec |-> wrk.rec]) ELSE @,
          !.ops = IF Len(wrk.need) = 1 /\ wrk.cur = add_op_flag
                  THEN chunk_add_op(@, Head(wrk.wire).str) ELSE @,
          !.probes = IF Len(wrk.need) = 1 /\ wrk.cur = add_probe_flag
                     THEN chunk_add_probe(@, wrk.rec) ELSE @,
          !.phase = IF Len(wrk.need) = 1 THEN "flag" ELSE "parts"]
    /\ UNCHANGED <<commVars, ord, prb, mrg, moreVars>>

\* MPI_Bcast(&steps, 1, MPI_INT, 0, comm);
worker_bcast ==
    /\ wrk.phase = "bcast"
    /\ wrk.bcast # Undef
    /\ wrk' = [wrk EXCEPT !.steps = wrk.bcast, !.phase = "run"]
    /\ UNCHANGED <<commVars, ord, prb, mrg, moreVars>>

\* chunk.run_n_steps(steps, false): the next operator of the current step is
\* invoked; the last one of the list ends the step.  trace is the kinds invoked so
\* far in the step, done the traces of the completed steps, and unbound tells that
\* an MPISend or MPIRecv was invoked that had no communicator (history only).
worker_step ==
    /\ wrk.phase = "run"
    /\ wrk.stepsRun < wrk.steps
    /\ wrk' = IF wrk.ops = <<>>
              THEN [wrk EXCEPT !.stepsRun = @ + 1, !.done = Append(@, <<>>),
                               !.probes = Sampled(@, wrk.stepsRun + 1)]
              ELSE IF wrk.pos < Len(wrk.ops)
              THEN [wrk EXCEPT !.pos = @ + 1,
                               !.trace = Append(@, wrk.ops[wrk.pos].kind),
                               !.unbound = @ \/ ~wrk.ops[wrk.pos].bound]
              ELSE [wrk EXCEPT !.pos = 1,
                               !.trace = <<>>,
                               !.done = Append(@, Append(wrk.trace, wrk.ops[wrk.pos].kind)),
                               !.unbound = @ \/ ~wrk.ops[wrk.pos].bound,
                               !.probes = Sampled(@, wrk.stepsRun + 1),
                               !.stepsRun = @ + 1]
    /\ UNCHANGED <<commVars, ord, prb, mrg, moreVars>>

\* chunk.run_n_steps has returned
worker_finish ==
    /\ wrk.phase = "run"
    /\ wrk.stepsRun = wrk.steps
    /\ wrk' = [wrk EXCEPT !.phase = "finished"]
    /\ UNCHANGED <<commVars, ord, prb, mrg, moreVars>>

\* another rank of comm enters the MPI_Barrier that follows its run
rank_post_barrier(r) ==
    /\ wrk.phase # "off"
    /\ wrk.bcast # Undef
    /\ r \notin wrk.bar1
    /\ wrk' = [wrk EXCEPT !.bar1 = @ \cup {r}]
    /\ UNCHANGED <<commVars, ord, prb, mrg, moreVars>>

\* the worker enters MPI_Barrier(comm) after chunk.run_n_steps
worker_post_barrier ==
    /\ wrk.phase = "finished"
    /\ wrk' = [wrk EXCEPT !.phase = "post_barrier"]
    /\ UNCHANGED <<commVars, ord, prb, mrg, moreVars>>

\* MPI_Barrier(comm) returns once every rank of comm has entered it; the loop over
\* chunk.probe_map begins, or, with no probe, the worker enters the final barrier
worker_post_barrier_return ==
    /\ wrk.phase = "post_barrier"
    /\ wrk.bar1 = OtherRanks
    /\ wrk' = [wrk EXCEPT !.phase = IF wrk.probes = <<>> THEN "final_barrier" ELSE "ship",
                          !.pidx = 1, !.ppos = 1]
    /\ UNCHANGED <<commVars, ord, prb, mrg, moreVars>>

\* one send of the loop body: send_key, send_int or send_matrix
worker_send ==
    /\ wrk.phase = "ship"
    /\ wrk.ppos <= Len(ProbeMessages(wrk.probes[wrk.pidx]))
    /\ wrk' = [wrk EXCEPT !.shipped = Append(@, ProbeMessages(wrk.probes[wrk.pidx])[wrk.ppos]),
                          !.ppos = @ + 1]
    /\ UNCHANGED <<commVars, ord, prb, mrg, moreVars>>

\* probe_it->second->clear(true); ++probe_it; after the last probe the worker
\* enters the final MPI_Barrier(comm)
worker_clear ==
    /\ wrk.phase = "ship"
    /\ wrk.ppos > Len(ProbeMessages(wrk.probes[wrk.pidx]))
    /\ wrk' = [wrk EXCEPT !.probes[wrk.pidx] = clear(@, TRUE),
                          !.pidx = @ + 1, !.ppos = 1,
                          !.phase = IF wrk.pidx = Len(wrk.probes) THEN "final_barrier"
                                    ELSE "ship"]
    /\ UNCHANGED <<commVars, ord, prb, mrg, moreVars>>

\* another rank enters the final barrier, which it does after the post-run barrier
rank_final_barrier(r) ==
    /\ wrk.phase \in {"ship", "final_barrier"}
    /\ r \notin wrk.bar2
    /\ wrk' = [wrk EXCEPT !.bar2 = @ \cup {r}]
    /\ UNCHANGED <<commVars, ord, prb, mrg, moreVars>>

\* the final MPI_Barrier(comm) returns; MPI_Finalize()
worker_finalize ==
    /\ wrk.phase = "final_barrier"
    /\ wrk.bar2 = OtherRanks
    /\ wrk' = [wrk EXCEPT !.phase = "finalize"]
    /\ UNCHANGED <<commVars, ord, prb, mrg, moreVars>>

NextWorker ==
    \/ master_hello
    \/ \E s \in Flags : \E str \in OpStrings : master_send(s, str)
    \/ \E k \in 0 .. MaxSteps : master_bcast(k)
    \/ worker_recv_label
    \/ worker_recv_dt
    \/ worker_recv_flag
    \/ worker_recv_part
    \/ worker_bcast
    \/ worker_step
    \/ worker_finish
    \/ \E r \in OtherRanks : rank_post_barrier(r)
    \/ worker_post_barrier
    \/ worker_post_barrier_return
    \/ worker_send
    \/ worker_clear
    \/ \E r \in OtherRanks : rank_final_barrier(r)
    \/ worker_finalize

SpecWorker == InitWorker /\ [][NextWorker]_vars

(***************************************************************************)
(* The chunk-build model: one chunk built through PythonMpiSimulatorChunk. *)
(* signals is the signal store, a function from the keys present to the    *)
(* value of the base signal; an operator is [kind, views], views being the *)
(* keys its signal views were resolved from; a probe is [key, view].       *)
(* error tells whether the last call raised a build error; n counts the    *)
(* calls and last is the last call with its arguments (history only).      *)
(***************************************************************************)
Keys == {1, 2}
BuildVals == {0, 1}

\* the store with the signal v put under key
StorePut(signals, key, v) ==
    [k \in (DOMAIN signals) \cup {key} |-> IF k = key THEN v ELSE signals[k]]

add_base_signal_overwrite(q, key, v) ==
    [q EXCEPT !.signals = StorePut(@, key, v), !.error = FALSE]

\* add_base_signal: the supplied key must be unique; a duplicate is a build error
add_base_signal(q, key, v) ==
    IF key \in DOMAIN q.signals
    THEN [q EXCEPT !.error = TRUE]
    ELSE [q EXCEPT !.signals = StorePut(@, key, v), !.error = FALSE]

\* get_vector_signal / get_matrix_signal: the key resolves to a stored base signal
Resolves(q, key) == key \in DOMAIN q.signals

create_operator_unchecked(q, kind, keys) ==
    [q EXCEPT !.ops = Append(@, [kind |-> kind, views |-> keys]), !.error = FALSE]

\* create_Reset / create_Copy / create_DotInc: every view is resolved, then the
\* operator is constructed and added; a failing lookup leaves before the add
create_operator(q, kind, keys) ==
    IF \A i \in 1 .. Len(keys) : Resolves(q, keys[i])
    THEN [q EXCEPT !.ops = Append(@, [kind |-> kind, views |-> keys]), !.error = FALSE]
    ELSE [q EXCEPT !.error = TRUE]

\* create_Probe: the signal is resolved, then the probe is constructed and added
create_probe(q, key, signal) ==
    IF Resolves(q, signal)
    THEN [q EXCEPT !.probes = Append(@, [key |-> key, view |-> signal]), !.error = FALSE]
    ELSE [q EXCEPT !.error = TRUE]

InitBuild ==
    /\ InitCommWith({Canonical})
    /\ ord = OrdIdle /\ prb = Off /\ mrg = Off /\ wrk = Off
    /\ dsp = Off /\ pyf = Off /\ cli = Off
    /\ bld = [phase |-> "build", signals |-> <<>>, ops |-> <<>>, probes |-> <<>>,
              error |-> FALSE, n |-> 0, last |-> [call |-> "none", args |-> <<>>]]

\* one call of the build interface, with its effect q on the chunk
BuildCall(call, args, q) ==
    /\ bld.phase = "build"
    /\ bld.n < MaxCalls
    /\ bld' = [q EXCEPT !.n = @ + 1, !.last = [call |-> call, args |-> args]]
    /\ UNCHANGED <<commVars, ord, prb, mrg, wrk, dsp, pyf, cli>>

py_add_signal(key, v) == BuildCall("add_signal", <<key>>, add_base_signal(bld, key, v))

py_create_Reset(dst) == BuildCall("create_Reset", <<dst>>, create_operator(bld, "Reset", <<dst>>))

py_create_Copy(dst, src) ==
    BuildCall("create_Copy", <<dst, src>>, create_operator(bld, "Copy", <<dst, src>>))

py_create_DotInc(A, X, Y) ==
    BuildCall("create_DotInc", <<A, X, Y>>, create_operator(bld, "DotInc", <<A, X, Y>>))

py_create_Probe(key, signal) ==
    BuildCall("create_Probe", <<key, signal>>, create_probe(bld, key, signal))

NextBuild ==
    \/ \E key \in Keys : \E v \in BuildVals : py_add_signal(key, v)
    \/ \E dst \in Keys : py_create_Reset(dst)
    \/ \E dst \in Keys : \E src \in Keys : py_create_Copy(dst, src)
    \/ \E A \in Keys : \E X \in Keys : \E Y \in Keys : py_create_DotInc(A, X, Y)
    \/ \E key \in Keys : \E signal \in Keys : py_create_Probe(key, signal)

SpecBuild == InitBuild /\ [][NextBuild]_vars

(***************************************************************************)
(* The dispatch model: MpiSimulator::add_signal / add_op / add_probe on    *)
(* rank 0, with the master chunk and NumWorkers worker ranks.  A build     *)
(* record is [flag, n], n being the number of the call that made it.       *)
(* master is the records applied to the master chunk, chunk[c] those       *)
(* applied to the chunk of worker c, wire[c] those sent to rank c and not  *)
(* yet received.  calls is the history of the calls (history only).        *)
(***************************************************************************)
Components == 0 .. NumWorkers
WorkerRanks == 1 .. NumWorkers

IsMasterAlways(component) == TRUE

\* if(component == 0)
IsMaster(component) == component = 0

\* mpi_interface.add_signal / add_op / add_probe (component, ...): the record is
\* sent to the rank of the component
Forward(wire, component, rec) == [wire EXCEPT ![component] = Append(@, rec)]

InitDispatch ==
    /\ InitCommWith({Canonical})
    /\ ord = OrdIdle /\ prb = Off /\ mrg = Off /\ wrk = Off
    /\ bld = Off /\ pyf = Off /\ cli = Off
    /\ dsp = [phase |-> "build", master |-> <<>>,
              chunk |-> [c \in WorkerRanks |-> <<>>],
              wire |-> [c \in WorkerRanks |-> <<>>],
              probe_counts |-> [c \in Components |-> 0],
              calls |-> <<>>]

\* one of the three calls, for the given component
Dispatch(flag, component) ==
    /\ dsp.phase = "build"
    /\ Len(dsp.calls) < MaxCalls
    /\ \E rec \in {[flag |-> flag, n |-> Len(dsp.calls) + 1]} :
          dsp' = [dsp EXCEPT
              !.master = IF IsMaster(component) THEN Append(@, rec) ELSE @,
              !.wire = IF IsMaster(component) THEN @ ELSE Forward(@, component, rec),
              !.probe_counts[component] = IF flag = add_probe_flag THEN @ + 1 ELSE @,
              !.calls = Append(@, [flag |-> flag, component |-> component])]
    /\ UNCHANGED <<commVars, ord, prb, mrg, wrk, bld, pyf, cli>>

sim_add_signal(component) == Dispatch(add_signal_flag, component)

sim_add_op(component) == Dispatch(add_op_flag, component)

sim_add_probe(component) == Dispatch(add_probe_flag, component)

\* worker c: the loop of start_worker receives the next record and applies it to
\* its own chunk
dispatch_worker_recv(c) ==
    /\ dsp.phase = "build"
    /\ dsp.wire[c] # <<>>
    /\ dsp' = [dsp EXCEPT !.chunk[c] = Append(@, Head(dsp.wire[c])),
                          !.wire[c] = Tail(@)]
    /\ UNCHANGED <<commVars, ord, prb, mrg, wrk, bld, pyf, cli>>

NextDispatch ==
    \/ \E component \in Components : sim_add_signal(component)
    \/ \E component \in Components : sim_add_op(component)
    \/ \E component \in Components : sim_add_probe(component)
    \/ \E c \in WorkerRanks : dispatch_worker_recv(c)

SpecDispatch == InitDispatch /\ [][NextDispatch]_vars

(***************************************************************************)
(* The host-callback model: one chunk with a PyFunc operator.  Values of   *)
(* the host language (Python floats, binary64) are modelled as the         *)
(* integers 0 .. 3; of these only the even ones stand for values that are  *)
(* representable in the C type float (binary32).  The callback is any      *)
(* function: what it returns is an input of the step, either a number      *)
(* [seq |-> FALSE, val |-> v] or a sequence [seq |-> TRUE, val |-> <<..>>].*)
(* pos is "pre" before the PyFunc of the current step and "post" after it; *)
(* invocations counts the calls of the callback and call is the argument   *)
(* list of the last one (history only).                                    *)
(***************************************************************************)
HostVals == 0 .. 3

\* argument not passed
NoArg == <<"none">>

\* bpy::extract<float>: the host value converted to the C type float
ExtractFloat(v) == 2 * (v \div 2)

\* what the callback may return
Returns ==
    [seq : {FALSE}, val : HostVals]
    \cup [seq : {TRUE}, val : [1 .. 1 -> HostVals] \cup [1 .. 2 -> HostVals]]

\* the copy of the input view into py_input, element by element
PyInputCopy(q) == IF q.supply_input THEN q.input ELSE q.py_input

\* py_fn(*time, py_input) / py_fn(py_input) / py_fn(*time) / py_fn()
PyCall(q) ==
    (IF q.supply_time THEN <<q.time>> ELSE <<>>)
    \o (IF q.supply_input THEN <<PyInputCopy(q)>> ELSE <<>>)

\* the try / catch after the call: a number goes to (*output)[0]; anything else is
\* indexed for i < output->size(), which fails on a sequence that is too short
PyOutput(q, ret) ==
    IF ~ret.seq THEN [q.output EXCEPT ![1] = ExtractFloat(ret.val)]
    ELSE [i \in 1 .. Len(q.output) |->
             IF i <= Len(ret.val) THEN ExtractFloat(ret.val[i]) ELSE q.output[i]]

InitPyFunc ==
    /\ InitCommWith({Canonical})
    /\ ord = OrdIdle /\ prb = Off /\ mrg = Off /\ wrk = Off
    /\ bld = Off /\ dsp = Off /\ cli = Off
    /\ \E supply_time \in BOOLEAN : \E supply_input \in BOOLEAN : \E size \in 1 .. 2 :
          pyf = [phase |-> "run", pos |-> "pre", supply_time |-> supply_time,
                 supply_input |-> supply_input, output |-> [i \in 1 .. size |-> 0],
                 input |-> <<0>>, py_input |-> <<0>>, time |-> 0, steps |-> 0,
                 invocations |-> 0, call |-> <<>>, ret |-> [seq |-> FALSE, val |-> 0]]

\* an operator before the PyFunc writes the signal the input view is of
pyf_write_input(v) ==
    /\ pyf.phase = "run" /\ pyf.pos = "pre"
    /\ pyf.steps < MaxSteps
    /\ pyf.input # <<v>>
    /\ pyf' = [pyf EXCEPT !.input = <<v>>]
    /\ UNCHANGED <<commVars, ord, prb, mrg, wrk, bld, dsp, cli>>

\* PyFunc::operator(), the callback returning ret
PyFunc_step(ret) ==
    /\ pyf.phase = "run" /\ pyf.pos = "pre"
    /\ pyf.steps < MaxSteps
    /\ pyf' = [pyf EXCEPT
          !.py_input = PyInputCopy(pyf),
          !.call = PyCall(pyf),
          !.invocations = @ + 1,
          !.ret = ret,
          !.output = PyOutput(pyf, ret),
          !.pos = "post",
          !.phase = IF ret.seq /\ Len(ret.val) < Len(pyf.output) THEN "error" ELSE "run"]
    /\ UNCHANGED <<commVars, ord, prb, mrg, wrk, bld, dsp, cli>>

\* the end of the step: time += dt
pyf_step_end ==
    /\ pyf.phase = "run" /\ pyf.pos = "post"
    /\ pyf' = [pyf EXCEPT !.pos = "pre", !.time = @ + 1, !.steps = @ + 1]
    /\ UNCHANGED <<commVars, ord, prb, mrg, wrk, bld, dsp, cli>>

NextPyFunc ==
    \/ \E v \in HostVals : pyf_write_input(v)
    \/ \E ret \in Returns : PyFunc_step(ret)
    \/ pyf_step_end

SpecPyFunc == InitPyFunc /\ [][NextPyFunc]_vars

(***************************************************************************)
(* The command-line entry point: main and mpi_master_start on rank 0, main *)
(* and mpi_worker_start on the other ranks.  A worker stays in             *)
(* mpi_worker_start, serving what the master sends, until it receives the  *)
(* termination flag.                                                       *)
(***************************************************************************)
\* what the command line of rank 0 amounts to
ArgClasses == {"parse_error", "help", "no_args", "wrong_count", "bad_time", "ok"}

\* the point of mpi_master_start the command line leads to
AfterParse(a) ==
    CASE a \in {"parse_error", "help", "no_args", "wrong_count"} -> "returned"
      [] a = "bad_time" -> "thrown"
      [] OTHER -> "build"

ToAllWorkers(inbox, m) == [w \in WorkerRanks |-> Append(inbox[w], m)]

InitCli ==
    /\ InitCommWith({Canonical})
    /\ ord = OrdIdle /\ prb = Off /\ mrg = Off /\ wrk = Off
    /\ bld = Off /\ dsp = Off /\ pyf = Off
    /\ cli = [phase |-> "cli",
              args |-> "none",
              master |-> "start",
              worker |-> [w \in WorkerRanks |-> "start"],
              inbox |-> [w \in WorkerRanks |-> <<>>],
              served |-> [w \in WorkerRanks |-> <<>>],
              killed |-> FALSE]

\* the option parsing and the handling of the mandatory arguments
master_parse(a) ==
    /\ cli.phase = "cli" /\ cli.master = "start"
    /\ cli' = [cli EXCEPT !.args = a, !.master = AfterParse(a)]
    /\ UNCHANGED <<commVars, ord, prb, mrg, wrk, bld, dsp, pyf>>

\* sim->from_file(net_filename); sim->finalize_build();
master_build ==
    /\ cli.phase = "cli" /\ cli.master = "build"
    /\ cli' = [cli EXCEPT !.master = "run",
                          !.inbox = ToAllWorkers(ToAllWorkers(@, "build"), "stop")]
    /\ UNCHANGED <<commVars, ord, prb, mrg, wrk, bld, dsp, pyf>>

\* sim->reset(seed); sim->run_n_steps(n_steps, show_progress, log_filename);
master_run_n_steps ==
    /\ cli.phase = "cli" /\ cli.master = "run"
    /\ cli' = [cli EXCEPT !.master = "close", !.inbox = ToAllWorkers(@, "steps")]
    /\ UNCHANGED <<commVars, ord, prb, mrg, wrk, bld, dsp, pyf>>

\* sim->close();
master_close ==
    /\ cli.phase = "cli" /\ cli.master = "close"
    /\ cli' = [cli EXCEPT !.master = "kill"]
    /\ UNCHANGED <<commVars, ord, prb, mrg, wrk, bld, dsp, pyf>>

\* mpi_kill_workers(); return 0;
mpi_kill_workers ==
    /\ cli.phase = "cli" /\ cli.master = "kill"
    /\ cli' = [cli EXCEPT !.master = "returned", !.killed = TRUE,
                          !.inbox = ToAllWorkers(@, "terminate")]
    /\ UNCHANGED <<commVars, ord, prb, mrg, wrk, bld, dsp, pyf>>

\* the runtime_error thrown by mpi_master_start is caught nowhere: the process of
\* rank 0 is terminated without reaching MPI_Finalize
master_uncaught ==
    /\ cli.phase = "cli" /\ cli.master = "thrown"
    /\ cli' = [cli EXCEPT !.master = "aborted"]
    /\ UNCHANGED <<commVars, ord, prb, mrg, wrk, bld, dsp, pyf>>

\* main on rank 0: MPI_Finalize(); return 0;
master_MPI_Finalize ==
    /\ cli.phase = "cli" /\ cli.master = "returned"
    /\ cli' = [cli EXCEPT !.master = "finalized"]
    /\ UNCHANGED <<commVars, ord, prb, mrg, wrk, bld, dsp, pyf>>

\* main on a rank other than 0: mpi_worker_start(MPI_COMM_WORLD);
mpi_worker_start(w) ==
    /\ cli.phase = "cli" /\ cli.worker[w] = "start"
    /\ cli' = [cli EXCEPT !.worker[w] = "waiting"]
    /\ UNCHANGED <<commVars, ord, prb, mrg, wrk, bld, dsp, pyf>>

\* the worker serves the next thing the master sent; the termination flag makes it
\* return from mpi_worker_start
cli_worker_recv(w) ==
    /\ cli.phase = "cli" /\ cli.worker[w] = "waiting"
    /\ cli.inbox[w] # <<>>
    /\ cli' = [cli EXCEPT
          !.inbox[w] = Tail(@),
          !.served[w] = Append(@, Head(cli.inbox[w])),
          !.worker[w] = IF Head(cli.inbox[w]) = "terminate" THEN "returned" ELSE "waiting"]
    /\ UNCHANGED <<commVars, ord, prb, mrg, wrk, bld, dsp, pyf>>

\* main on a rank other than 0: MPI_Finalize(); return 0;
worker_MPI_Finalize(w) ==
    /\ cli.phase = "cli" /\ cli.worker[w] = "returned"
    /\ cli' = [cli EXCEPT !.worker[w] = "finalized"]
    /\ UNCHANGED <<commVars, ord, prb, mrg, wrk, bld, dsp, pyf>>

NextCli ==
    \/ \E a \in ArgClasses : master_parse(a)
    \/ master_build
    \/ master_run_n_steps
    \/ master_close
    \/ mpi_kill_workers
    \/ master_uncaught
    \/ master_MPI_Finalize
    \/ \E w \in WorkerRanks : mpi_worker_start(w)
    \/ \E w \in WorkerRanks : cli_worker_recv(w)
    \/ \E w \in WorkerRanks : worker_MPI_Finalize(w)

SpecCli == InitCli /\ [][NextCli]_vars

(***************************************************************************)
(* Properties.                                                             *)
(***************************************************************************)
SendCount(c) == Len(hist[c].send)
RecvCount(c) == Len(hist[c].recv)
Last(s) == s[Len(s)]
BarrierCount(c, lo, hi) ==
    Cardinality({n \in lo .. hi : n <= Len(hist[c].bar) /\ hist[c].bar[n]})

\* C1: one-step latency.  The view of a receive, after its MPIRecv ran for the
\* (s+1)-th time, holds the value the peer's send view had when the peer's MPISend
\* ran for the s-th time, and it comes from that very message (seq = s): no view
\* ever shows a message of the step it is in.
C1_OneStepLatency ==
    \A c \in Chunks : \A j \in 2 .. RecvCount(c) :
        /\ j - 1 <= SendCount(Peer(c))
        /\ hist[c].recv[j] = hist[Peer(c)].send[j - 1]
        /\ hist[c].recvSeq[j] = j - 1
        /\ (j = RecvCount(c) => y[c] = hist[c].recv[j])

C1_Witness ==
    \E c \in Chunks :
        /\ RecvCount(c) >= 3
        /\ hist[c].recv[3] # hist[c].recv[2]
        /\ hist[c].recv[2] # InitY(c)

\* C2: after k invocations of MPISend exactly k sends were posted, at most one of
\* them is outstanding (each invocation but the first waited for the previous one
\* before it copied and posted), first_call is clear from the first invocation on,
\* and the buffer holds the copy of the view made by the last invocation.
C2_SendProtocol ==
    \A c \in Chunks :
        /\ hist[c].sendPosted = SendCount(c)
        /\ sendPending[c] <= 1
        /\ sendFirst[c] = (SendCount(c) = 0)
        /\ SendCount(c) > 0 =>
              sendBuf[c] = [val |-> Last(hist[c].send), seq |-> SendCount(c)]

C2_Witness ==
    \E c \in Chunks : SendCount(c) >= 2 /\ sendPending[c] = 1 /\ chan[c] # <<>>

\* C3: after k invocations of MPIRecv exactly k receives were posted and exactly
\* k-1 copies from the buffer into the view were made; the first invocation left
\* the view at its initial value; at most one receive is outstanding.
C3_RecvProtocol ==
    \A c \in Chunks :
        /\ hist[c].recvPosted = RecvCount(c)
        /\ hist[c].copies = (IF RecvCount(c) = 0 THEN 0 ELSE RecvCount(c) - 1)
        /\ recvFirst[c] = (RecvCount(c) = 0)
        /\ recvPending[c] <= 1
        /\ RecvCount(c) >= 1 => hist[c].recv[1] = InitY(c)
        /\ RecvCount(c) <= 1 => y[c] = InitY(c)

C3_Witness ==
    \E c \in Chunks : RecvCount(c) = 3 /\ hist[c].copies = 2 /\ recvPending[c] = 1

\* Buffer isolation (C4), state part.  Every message in flight or delivered carries the value
\* its sender's view had when MPISend copied it; a send buffer is not written
\* while a send posted on it is incomplete; and a receive view changes only in a
\* step of MPIRecv that is past its first call and whose receive has completed.
C4_InFlightIntact ==
    \A c \in Chunks :
        /\ \A i \in 1 .. Len(chan[c]) :
              /\ chan[c][i].seq \in 1 .. SendCount(c)
              /\ chan[c][i].val = hist[c].send[chan[c][i].seq]
        /\ recvBuf[c].val # Undef =>
              /\ recvBuf[c].seq \in 1 .. SendCount(Peer(c))
              /\ recvBuf[c].val = hist[Peer(c)].send[recvBuf[c].seq]

\* C4: in every state the messages in flight are intact, and no step writes a
\* send buffer under an incomplete send or a receive view outside such an MPIRecv.
C4_BufferIsolation ==
    /\ []C4_InFlightIntact
    /\ [][\A c \in Chunks :
            /\ sendPending[c] > 0 => sendBuf'[c] = sendBuf[c]
            /\ y'[c] # y[c] =>
                  CurOp(c) = "recv" /\ ~recvFirst[c] /\ recvPending[c] = 0]_vars

C4_Witness ==
    \E c \in Chunks :
        /\ sendPending[c] = 1
        /\ sendBuf[c].val # x[c]
        /\ chan[c] # <<>>
        /\ chan[c][1].val # x[c]

\* C5 (as claimed): among any BARRIER_PERIOD consecutive invocations of MPIBarrier,
\* counted from the first, exactly one performs the collective barrier.
C5_OncePerWindow ==
    \A c \in Chunks : \A i \in 1 .. (Len(hist[c].bar) - BARRIER_PERIOD + 1) :
        BarrierCount(c, i, i + BARRIER_PERIOD - 1) = 1

\* C5 (amended): the n-th invocation performs the collective barrier iff n > 1 and
\* n-1 is a multiple of BARRIER_PERIOD: none of the first BARRIER_PERIOD
\* invocations does, and exactly one of any BARRIER_PERIOD consecutive invocations
\* after the first does.  Every invocation advances step by exactly one, and the
\* barriers entered are exactly those of the invocations that are due.
C5_BarrierSchedule ==
    \A c \in Chunks :
        /\ barStep[c] = Len(hist[c].bar)
        /\ \A n \in 1 .. Len(hist[c].bar) :
              hist[c].bar[n] = (n > 1 /\ (n - 1) % BARRIER_PERIOD = 0)
        /\ BarrierCount(c, 1, BARRIER_PERIOD) = 0
        /\ \A i \in 2 .. (Len(hist[c].bar) - BARRIER_PERIOD + 1) :
              BarrierCount(c, i, i + BARRIER_PERIOD - 1) = 1
        /\ barArrive[c] = BarrierCount(c, 1, Len(hist[c].bar))
                            + (IF pc[c] = "inbarrier" THEN 1 ELSE 0)

C5_Witness ==
    \E c \in Chunks :
        /\ Len(hist[c].bar) > BARRIER_PERIOD
        /\ hist[c].bar[BARRIER_PERIOD + 1]

\* C6: when the collective barrier of a chunk's n-th step has returned on it, every
\* chunk has executed all its operators that precede the barrier (the MPIRecv, the
\* DotInc and the MPISend) in each of its steps 1 .. n.
C6_BarrierSync ==
    \A c \in Chunks : \A n \in 1 .. Len(hist[c].bar) :
        hist[c].bar[n] =>
            \A d \in Chunks :
                /\ SendCount(d) >= n
                /\ RecvCount(d) >= n
                /\ hist[d].upd >= n

C6_Witness ==
    \E c \in Chunks :
        /\ Len(hist[c].bar) > 0
        /\ Last(hist[c].bar)
        /\ pc[Peer(c)] = "inbarrier"

\* Operator order (C7): after finalize_build the operator list holds every added operator exactly
\* once, in ascending order of index, operators of equal index in the order they
\* were added; every step invokes the operators in exactly that order, so every
\* completed step has the same trace.
OrdIds == [i \in 1 .. Len(ord.operator_list) |-> ord.operator_list[i].id]

C8_ResetRestores ==
    (simPc = "idle" /\ resetFlag) =>
        \A c \in Chunks :
            /\ x[c] = InitX(c)
            /\ y[c] = InitY(c)
            /\ time[c] = 0
            /\ probeBuf[c] = <<>>
            /\ sendFirst[c]
            /\ recvFirst[c]

\* C9 (as claimed): reset; run_n_steps(k); reset; run_n_steps(k) yields the same
\* probe samples in the second run as in the first.
C9_ResetIdempotent ==
    ( /\ Len(runs) = 2
      /\ resetEvery
      /\ runs[1].k = runs[2].k
      /\ runs[2].done )
    => runs[2].samples = runs[1].samples

\* Determinism (C10).  The samples of every probe are a function of the build
\* alone: whatever the interleaving of the chunks and the timing of the transport,
\* the n-th sample of a chunk is the one of step n of the lock-step execution, in
\* which every chunk runs its n-th step on the messages of step n-1.
LockstepOp(kind, loc, n, inMsg) ==
    CASE kind = "recv" -> [loc EXCEPT !.y = IF n = 1 THEN loc.y ELSE inMsg]
      [] kind = "upd" -> [loc EXCEPT !.x = (loc.x + loc.y) % NumVals]
      [] kind = "send" -> [loc EXCEPT !.out = loc.x]
      [] OTHER -> loc

RECURSIVE LockstepOps(_, _, _, _)
LockstepOps(ops, loc, n, inMsg) ==
    IF ops = <<>> THEN loc
    ELSE LockstepOps(Tail(ops), LockstepOp(Head(ops), loc, n, inMsg), n, inMsg)

LockstepInit == [c \in Chunks |-> [x |-> InitX(c), y |-> InitY(c), out |-> 0]]

LockstepNext(p, n) ==
    [c \in Chunks |-> LockstepOps(operator_list[c], p[c], n, p[Peer(c)].out)]

\* the states after steps 1 .. n of the lock-step execution, extending t
RECURSIVE LockstepTrace(_, _)
LockstepTrace(t, n) ==
    IF Len(t) >= n THEN t
    ELSE LockstepTrace(
            Append(t, LockstepNext(IF t = <<>> THEN LockstepInit ELSE t[Len(t)],
                                   Len(t) + 1)), n)

AllSamples(c) == probe_data[c] \o probeBuf[c]

MaxSamples ==
    IF Len(AllSamples(0)) > Len(AllSamples(1)) THEN Len(AllSamples(0)) ELSE Len(AllSamples(1))

\* C10: every sample produced, under any interleaving and delivery timing, is the
\* sample of the lock-step execution of the same build.
C10_Determinism ==
    \A t \in {LockstepTrace(<<>>, MaxSamples)} :
        \A c \in Chunks : \A n \in 1 .. Len(AllSamples(c)) :
            AllSamples(c)[n] = <<t[n][c].x, t[n][c].y>>

C10_Witness ==
    /\ simPc = "idle"
    /\ \A c \in Chunks :
          /\ Len(probe_data[c]) >= 3
          /\ probe_data[c][3] # probe_data[c][2]
          /\ probe_data[c][2] # probe_data[c][1]
    /\ operator_list[0] # operator_list[1]

\* C13: run_n_steps(0) is a no-op.  No step between the call of run_n_steps(0)
\* and its return invokes an operator, posts or completes a send or a receive,
\* takes a probe sample, or changes a signal, the time or a first_call flag.
C13_ZeroStepsNoOp ==
    [][((simPc' = "running" /\ steps' = 0) \/ (simPc = "running" /\ steps = 0))
          => UNCHANGED <<sigVars, sendVars, recvVars, chan, barVars, time, probeBuf,
                         probe_data, hist>>]_vars

C13_Witness ==
    /\ Len(runs) = 2
    /\ runs[1].k >= 1
    /\ runs[2].k = 0
    /\ runs[2].done
    /\ \A c \in Chunks : ~sendFirst[c] /\ ~recvFirst[c] /\ time[c] = runs[1].k

\* C16: when run_n_steps(k), k >= 1, has returned on a chunk, none of its requests
\* is outstanding: the send of its last step has been taken by the transport and
\* the receive of its last step holds the message of the peer's last send.
C16_DrainedOnReturn ==
    \A c \in Chunks :
        (pc[c] = "done" /\ steps >= 1) =>
            /\ sendPending[c] = 0
            /\ recvPending[c] = 0
            /\ hist[c].sendPosted >= 1
            /\ recvBuf[c].seq = hist[c].recvPosted

C16_Witness ==
    \E c \in Chunks :
        /\ pc[c] = "done"
        /\ steps = 2
        /\ pc[Peer(c)] = "op"
        /\ hist[c].recvPosted >= 2

(***************************************************************************)
(* The single-process run: one rank, whose MPISend and MPIRecv are         *)
(* addressed to itself, in any operator order and under a transport that   *)
(* buffers or not.  The process keeps running and the transport keeps      *)
(* making progress, which is the fairness condition.                       *)
(***************************************************************************)
InitSelf ==
    /\ opIndex \in {f \in [Chunks -> Placements] : f[1] = Canonical}
    /\ topo = "self"
    /\ eager \in BOOLEAN
    /\ InitRun
    /\ ord = OrdIdle /\ prb = Off /\ mrg = Off /\ wrk = Off /\ MoreOff

Progress ==
    \/ FinishRun
    \/ \E c \in Chunks :
          \/ MPISend_step(c) \/ MPIRecv_step(c) \/ DotInc_step(c)
          \/ MPIBarrier_step(c) \/ MPIBarrier_return(c) \/ Drain(c)
          \/ MPI_TransferOut(c) \/ MPI_Deliver(c)

SpecSelf == InitSelf /\ [][Next]_vars /\ WF_vars(Progress)

RECURSIVE FlattenBlocks(_)
FlattenBlocks(blocks) ==
    IF blocks = <<>> THEN <<>> ELSE Head(blocks) \o FlattenBlocks(Tail(blocks))

CeilDiv(n, d) == (n + d - 1) \div d

\* value of the signal a at the end of the 1-based step t
EndOfStep(t) == (Len(ProbeOps) * t) % NumVals

\* C11: a probe of period p has collected exactly ceil(n/p) samples when a run of n
\* steps, started from the freshly built (reset) chunk, has ended.
C11_SampleCount ==
    prb.phase = "done" =>
        Len(FlattenBlocks(prb.sink)) + Len(prb.buffer) = CeilDiv(prb.s, prb.period)

C11_Witness ==
    /\ prb.phase = "done"
    /\ prb.period = 2
    /\ prb.s = 5
    /\ Len(FlattenBlocks(prb.sink)) = 3

\* C12: every stored sample, whenever it is read, equals the value the signal had at
\* the end of the step that took it, whatever was written to the signal since.
C12_SampleAtEndOfStep ==
    prb.phase \in {"run", "done"} =>
        \A all \in {FlattenBlocks(prb.sink) \o prb.buffer} :
            \A i \in 1 .. Len(all) :
                /\ all[i].step \in 1 .. prb.s
                /\ SampleValue(all[i]) = EndOfStep(all[i].step)

C12_Witness ==
    /\ prb.phase = "run"
    /\ prb.pos = 2
    /\ Len(prb.buffer) >= 2
    /\ prb.buffer[1].val # prb.a
    /\ prb.buffer[1].val # prb.buffer[2].val

\* C14: during the run the probes have been flushed exactly at the steps whose
\* 1-based count is a multiple of FLUSH_PROBES_EVERY; right after such a flush the
\* buffer is empty; the block of each flush holds the samples of its own window of
\* steps, and the buffer only samples taken after the last flush.
C14_FlushSchedule ==
    prb.phase = "run" =>
        /\ prb.flushAt = [i \in 1 .. (prb.s \div FLUSH_PROBES_EVERY) |->
                             i * FLUSH_PROBES_EVERY]
        /\ Len(prb.sink) = Len(prb.flushAt)
        /\ (prb.pos = 1 /\ prb.s > 0 /\ prb.s % FLUSH_PROBES_EVERY = 0)
              => prb.buffer = <<>>
        /\ \A i \in 1 .. Len(prb.sink) : \A j \in 1 .. Len(prb.sink[i]) :
              /\ prb.sink[i][j].step > (i - 1) * FLUSH_PROBES_EVERY
              /\ prb.sink[i][j].step <= i * FLUSH_PROBES_EVERY
        /\ \A j \in 1 .. Len(prb.buffer) :
              prb.buffer[j].step > Len(prb.flushAt) * FLUSH_PROBES_EVERY

C14_Witness ==
    /\ prb.phase = "run"
    /\ prb.period = 1
    /\ prb.s = FLUSH_PROBES_EVERY + 1
    /\ Len(prb.sink) = 1
    /\ Len(prb.sink[1]) = FLUSH_PROBES_EVERY
    /\ Len(prb.buffer) = 1
    /\ prb.buffer[1].step = FLUSH_PROBES_EVERY + 1

\* C15: when a run of n steps has ended, the blocks handed to the log sink by the
\* floor(n / FLUSH_PROBES_EVERY) flushes of the run and by the final flush are,
\* concatenated in flush order, exactly the samples of the run in step order: for
\* period 1 the sample of every step 1 .. n once, none lost, doubled or out of order.
C15_FlushKeepsSamples ==
    prb.phase = "done" =>
        /\ Len(prb.flushAt) = prb.s \div FLUSH_PROBES_EVERY
        /\ Len(prb.sink) = Len(prb.flushAt) + 1
        /\ prb.buffer = <<>>
        /\ \A all \in {FlattenBlocks(prb.sink)} :
              /\ Len(all) = CeilDiv(prb.s, prb.period)
              /\ \A j \in 1 .. Len(all) :
                    /\ all[j].step = (j - 1) * prb.period + 1
                    /\ all[j].val = EndOfStep(all[j].step)

C15_Witness ==
    /\ prb.phase = "done"
    /\ prb.period = 1
    /\ prb.s = 2 * FLUSH_PROBES_EVERY + 2
    /\ Len(prb.sink) = 3
    /\ Len(prb.sink[1]) = FLUSH_PROBES_EVERY
    /\ Len(prb.sink[3]) = 2

(***************************************************************************)
(* Properties of the merged-communication model.                           *)
(***************************************************************************)
\* C18: in merged mode chunk A, which has at least one logical send to chunk B,
\* posts exactly one message to B in every step, however many channels there are.
C18_OneMessagePerStep ==
    (mrg.phase = "run" /\ mrg.merged) =>
        /\ Len(mrg.postsPerStep) = mrg.aStep
        /\ \A i \in 1 .. Len(mrg.postsPerStep) : mrg.postsPerStep[i] = 1
        /\ mrg.posts <= 1
        /\ \A g \in DOMAIN mrg.chan : \A i \in 1 .. Len(mrg.chan[g]) :
              Len(mrg.chan[g][i]) = Len(mrg.sendAdd)

C18_Witness ==
    /\ mrg.phase = "run"
    /\ mrg.merged
    /\ Len(mrg.sendAdd) = 2
    /\ mrg.aStep = 3
    /\ mrg.postsPerStep = <<1, 1, 1>>

\* value of x_t at the end of step s of chunk A
SentAt(t, s) == (t * (s + 1)) % NumVals

\* what the one-step latency makes of it on chunk B in step s
Expected(t, s) == IF s = 1 THEN 0 ELSE SentAt(t, s - 1)

\* C19: with mpi_merged true or false alike, every reader of a receive view reads in
\* step s the value the sender's view had at the end of step s-1 (the initial value
\* in step 1), and every probe sample shows the same: the observations are the same
\* function of the build records and the step in both modes.
C19_MergedEquivalent ==
    mrg.phase = "run" =>
        /\ \A i \in 1 .. Len(mrg.reads) :
              mrg.reads[i].val = Expected(mrg.reads[i].tag, mrg.reads[i].step)
        /\ \A n \in 1 .. Len(mrg.samples) : \A t \in DOMAIN mrg.samples[n] :
              mrg.samples[n][t] = Expected(t, n)

C19_Witness ==
    /\ mrg.phase = "run"
    /\ mrg.merged
    /\ Len(mrg.sendAdd) = 2
    /\ mrg.sendAdd # mrg.recvAdd
    /\ mrg.bPc = "done"
    /\ Len(mrg.samples) = 3
    /\ mrg.samples[3][1] # mrg.samples[3][2]
    /\ Len(mrg.reads) = 6

(***************************************************************************)
(* Properties of the worker model.                                         *)
(***************************************************************************)
\* the records rank 0 sent before its first flag that is not an add flag
BuildRecords(sent) ==
    [i \in 1 .. (IF \E j \in 1 .. Len(sent) : sent[j] \notin AddFlags
                 THEN MinOf({j \in 1 .. Len(sent) : sent[j] \notin AddFlags}) - 1
                 ELSE Len(sent)) |-> [flag |-> sent[i], rec |-> i]]

\* C20: the records the worker has applied are, in order, the first records rank 0
\* sent; once it has received stop they are exactly the records sent before stop
\* and stay so; it runs no step before it has received stop and then the broadcast
\* step count, and when it is finished it has run exactly that many steps.
C20_WorkerProtocol ==
    wrk.phase # "off" =>
        /\ ~wrk.misread
        /\ Len(wrk.applied) <= Len(BuildRecords(wrk.sent))
        /\ wrk.applied = SubSeq(BuildRecords(wrk.sent), 1, Len(wrk.applied))
        /\ wrk.phase \in {"bcast", "run"} \cup PostRunPhases =>
              /\ wrk.applied = BuildRecords(wrk.sent)
              /\ Len(wrk.sent) > Len(wrk.applied)
              /\ wrk.sent[Len(wrk.applied) + 1] = stop_flag
              /\ wrk.barrier
        /\ wrk.phase \notin {"run"} \cup PostRunPhases => wrk.stepsRun = 0
        /\ wrk.phase \in {"run"} \cup PostRunPhases =>
              /\ wrk.steps = wrk.bcast
              /\ wrk.stepsRun <= wrk.steps
        /\ wrk.phase \in PostRunPhases => wrk.stepsRun = wrk.bcast

C20_Witness ==
    /\ wrk.phase = "finished"
    /\ wrk.stepsRun = 2
    /\ wrk.sent = <<add_probe_flag, stop_flag, add_op_flag>>
    /\ wrk.applied = <<[flag |-> add_probe_flag, rec |-> 1]>>
    /\ wrk.wire # <<>>

\* C21: once the worker has left the build loop, every MPISend and MPIRecv of its
\* chunk has the communicator, and the operator list holds exactly one MPIBarrier,
\* as its last element; no MPISend or MPIRecv was ever invoked without communicator,
\* and every completed step invoked all operators in list order, the barrier last.
C21_BoundAndBarrierLast ==
    wrk.phase \in {"bcast", "run"} \cup PostRunPhases =>
        /\ \A i \in 1 .. Len(wrk.ops) : wrk.ops[i].bound
        /\ Cardinality({i \in 1 .. Len(wrk.ops) : wrk.ops[i].kind = "barrier"}) = 1
        /\ wrk.ops[Len(wrk.ops)].kind = "barrier"
        /\ Len(wrk.ops) = 1 + Cardinality({i \in 1 .. Len(wrk.applied) :
                                               wrk.applied[i].flag = add_op_flag})
        /\ ~wrk.unbound
        /\ Len(wrk.done) = wrk.stepsRun
        /\ \A n \in 1 .. Len(wrk.done) :
              /\ wrk.done[n] = Kinds(wrk.ops)
              /\ Last(wrk.done[n]) = "barrier"
        /\ wrk.trace = SubSeq(Kinds(wrk.ops), 1, wrk.pos - 1)

C21_Witness ==
    /\ wrk.phase = "finished"
    /\ wrk.stepsRun = 2
    /\ Kinds(wrk.ops) = <<"recv", "send", "barrier">>
    /\ wrk.done[2] = <<"recv", "send", "barrier">>

Referenced(last) ==
    IF last.call = "create_Probe" THEN {last.args[2]}
    ELSE {last.args[i] : i \in 1 .. Len(last.args)}

\* every view held by an operator or a probe is a view of a stored base signal
ViewsResolve ==
    bld.phase = "build" =>
        /\ \A i \in 1 .. Len(bld.ops) : \A j \in 1 .. Len(bld.ops[i].views) :
              bld.ops[i].views[j] \in DOMAIN bld.signals
        /\ \A i \in 1 .. Len(bld.probes) : bld.probes[i].view \in DOMAIN bld.signals

\* C23: in every state every view of every operator and probe refers to a base
\* signal of the store; a call that creates an operator or a probe raises a build
\* error and adds nothing if one of the keys it references is not in the store, and
\* otherwise adds exactly the one operator or probe, holding views of those keys.
C23_ViewsResolve ==
    /\ []ViewsResolve
    /\ [][(bld.phase = "build" /\ bld'.n = bld.n + 1 /\ bld'.last.call # "add_signal") =>
             /\ bld'.signals = bld.signals
             /\ IF Referenced(bld'.last) \subseteq DOMAIN bld.signals
                THEN /\ ~bld'.error
                     /\ Len(bld'.ops) + Len(bld'.probes) = Len(bld.ops) + Len(bld.probes) + 1
                     /\ SubSeq(bld'.ops, 1, Len(bld.ops)) = bld.ops
                     /\ SubSeq(bld'.probes, 1, Len(bld.probes)) = bld.probes
                ELSE /\ bld'.error
                     /\ bld'.ops = bld.ops
                     /\ bld'.probes = bld.probes]_vars

C23_Witness ==
    /\ bld.phase = "build"
    /\ bld.error
    /\ bld.last.call = "create_DotInc"
    /\ bld.last.args = <<1, 1, 2>>
    /\ DOMAIN bld.signals = {1}
    /\ Len(bld.ops) = 1
    /\ bld.ops[1] = [kind |-> "Copy", views |-> <<1, 1>>]

(***************************************************************************)
(* Properties of the dispatch model.                                       *)
(***************************************************************************)
\* the records of the calls i, i+1, ... made for component d
RECURSIVE RecordsOf(_, _, _)
RecordsOf(calls, d, i) ==
    IF i > Len(calls) THEN <<>>
    ELSE (IF calls[i].component = d THEN <<[flag |-> calls[i].flag, n |-> i]>> ELSE <<>>)
         \o RecordsOf(calls, d, i + 1)

\* each chunk holds, in call order, records of the calls made for its own component
\* only: the master chunk all of them, a worker chunk those it has received so far
OwnRecordsOnly ==
    dsp.phase = "build" =>
        /\ dsp.master = RecordsOf(dsp.calls, 0, 1)
        /\ \A c \in WorkerRanks : dsp.chunk[c] \o dsp.wire[c] = RecordsOf(dsp.calls, c, 1)

\* C24: a call for component 0 appends its record to the master chunk and sends
\* nothing; a call for component c > 0 sends its record to rank c only and changes
\* neither the master chunk nor any worker chunk; a worker chunk changes only when
\* its own rank receives a record sent to it.  So every chunk holds records of its
\* own component only.
C24_DispatchByOwner ==
    /\ []OwnRecordsOnly
    /\ [][dsp.phase = "build" =>
             IF Len(dsp'.calls) = Len(dsp.calls) + 1
             THEN \E call \in {Last(dsp'.calls)} :
                  \E rec \in {[flag |-> call.flag, n |-> Len(dsp'.calls)]} :
                     /\ dsp'.chunk = dsp.chunk
                     /\ IF call.component = 0
                        THEN /\ dsp'.master = Append(dsp.master, rec)
                             /\ dsp'.wire = dsp.wire
                        ELSE /\ dsp'.master = dsp.master
                             /\ dsp'.wire[call.component] =
                                    Append(dsp.wire[call.component], rec)
                             /\ \A d \in WorkerRanks \ {call.component} :
                                    dsp'.wire[d] = dsp.wire[d]
             ELSE /\ dsp'.master = dsp.master
                  /\ \A c \in WorkerRanks :
                        dsp'.chunk[c] # dsp.chunk[c] =>
                           /\ dsp.wire[c] # <<>>
                           /\ dsp'.chunk[c] = Append(dsp.chunk[c], Head(dsp.wire[c]))
                           /\ \A d \in WorkerRanks \ {c} : dsp'.chunk[d] = dsp.chunk[d]]_vars

C24_Witness ==
    /\ dsp.phase = "build"
    /\ Len(dsp.calls) = 3
    /\ dsp.master = <<[flag |-> add_op_flag, n |-> 2]>>
    /\ dsp.chunk[2] = <<[flag |-> add_signal_flag, n |-> 1]>>
    /\ dsp.wire[2] = <<[flag |-> add_probe_flag, n |-> 3]>>
    /\ dsp.chunk[1] = <<>> /\ dsp.wire[1] = <<>>

(***************************************************************************)
(* Properties of the host-callback model.                                  *)
(***************************************************************************)
\* every step has called the callback exactly once, with the current time iff
\* supply_time and with a copy of the current input view iff supply_input
PyFuncCalledOnce ==
    pyf.phase \in {"run", "error"} =>
        /\ pyf.invocations = pyf.steps + (IF pyf.pos = "post" THEN 1 ELSE 0)
        /\ pyf.pos = "post" =>
              pyf.call = (IF pyf.supply_time THEN <<pyf.time>> ELSE <<>>)
                         \o (IF pyf.supply_input THEN <<pyf.input>> ELSE <<>>)

\* C25 (as claimed): each step of the PyFunc calls the callback exactly once, with
\* the time iff want_time and a snapshot of the input iff an input view was given,
\* and afterwards every element of the output view equals the corresponding
\* element of the value the callback returned.
C25_HostCallback ==
    /\ PyFuncCalledOnce
    /\ (pyf.phase = "run" /\ pyf.pos = "post") =>
          IF pyf.ret.seq
          THEN \A i \in 1 .. Len(pyf.output) : pyf.output[i] = pyf.ret.val[i]
          ELSE pyf.output[1] = pyf.ret.val

(***************************************************************************)
(* Long runs of chunks that are coupled loosely or not at all: the chunks  *)
(* do not communicate (NoComm), or chunk 0 only sends and chunk 1 only     *)
(* receives (OneWay), or both do both (the ring).  A run has up to         *)
(* 2 * BARRIER_PERIOD + 1 steps, so that it spans more than one barrier.   *)
(***************************************************************************)
NoComm == [c \in Chunks |-> <<"upd", "barrier">>]

OneWay == [c \in Chunks |-> IF c = 0 THEN <<"upd", "send", "barrier">>
                            ELSE <<"recv", "upd", "barrier">>]

Ring == [c \in Chunks |-> Finalized(Canonical)]

LongRun == 2 * BARRIER_PERIOD + 1

InitSkew ==
    /\ opIndex = [c \in Chunks |-> Canonical]
    /\ topo = "ring"
    /\ eager = TRUE
    /\ operator_list \in {NoComm, OneWay, Ring}
    /\ InitChunks
    /\ ord = OrdIdle /\ prb = Off /\ mrg = Off /\ wrk = Off /\ MoreOff

NextSkew ==
    \/ \E k \in 0 .. LongRun : run_n_steps(k)
    \/ FinishRun
    \/ \E c \in Chunks : MPISend_step(c)
    \/ \E c \in Chunks : MPIRecv_step(c)
    \/ \E c \in Chunks : DotInc_step(c)
    \/ \E c \in Chunks : MPIBarrier_step(c)
    \/ \E c \in Chunks : MPIBarrier_return(c)
    \/ \E c \in Chunks : Drain(c)
    \/ \E c \in Chunks : MPI_TransferOut(c)
    \/ \E c \in Chunks : MPI_Deliver(c)

SpecSkew == InitSkew /\ [][NextSkew]_vars

(***************************************************************************)
(* Properties of long runs.                                                *)
(***************************************************************************)
\* C26: the numbers of steps two chunks have completed never differ by more than
\* BARRIER_PERIOD, whether or not the chunks communicate.
C26_BoundedSkew ==
    \A c, d \in Chunks : time[c] - time[d] <= BARRIER_PERIOD

C26_Witness ==
    \E c \in Chunks :
        /\ operator_list = NoComm
        /\ Len(runs) = 1 /\ steps > BARRIER_PERIOD
        /\ pc[c] = "inbarrier"
        /\ time[c] - time[Peer(c)] = BARRIER_PERIOD
        /\ pc[Peer(c)] = "op"

(***************************************************************************)
(* Runs of two communicating chunks under a transport that buffers or not, *)
(* for either order of the MPISend and the MPIRecv in each chunk.  The     *)
(* processes keep running and the transport keeps making progress, which   *)
(* is the fairness condition.                                              *)
(***************************************************************************)
\* the two orders of the MPISend and the MPIRecv of a chunk, the DotInc between them
LivePlacements == {f \in Placements : f["upd"] = Canonical["upd"]}

InitLive ==
    /\ opIndex \in [Chunks -> LivePlacements]
    /\ topo = "ring"
    /\ eager \in BOOLEAN
    /\ InitRun
    /\ ord = OrdIdle /\ prb = Off /\ mrg = Off /\ wrk = Off /\ MoreOff

\* successive runs without a reset in between
NextLive ==
    \/ \E k \in 0 .. MaxSteps : run_n_steps(k)
    \/ Progress

SpecLive == InitLive /\ [][NextLive]_vars /\ WF_vars(Progress)

\* the k-th barrier a chunk enters is entered at the same value of its step counter
\* in every chunk
BarrierCountersEqual ==
    \A c \in Chunks :
        pc[c] = "inbarrier" => barStep[c] = barArrive[c] * BARRIER_PERIOD

\* C27: every run_n_steps returns, which it does once every chunk has run its steps
\* and drained its requests, for every placement of the send and receive operators
\* and across successive runs; every barrier a chunk has entered is left again, and
\* the chunks enter a barrier with equal step counters.
C27_DeadlockFree ==
    /\ (simPc = "running") ~> (simPc = "idle")
    /\ \A c \in Chunks : (pc[c] = "inbarrier") ~> (pc[c] # "inbarrier")
    /\ []BarrierCountersEqual

C27_Witness ==
    /\ ~eager
    /\ operator_list[0][1] = "send" /\ operator_list[1][1] = "send"
    /\ simPc = "idle"
    /\ Len(runs) = 2
    /\ runs[1].k = MaxSteps /\ runs[2].k = MaxSteps
    /\ runs[2].done
    /\ \E n \in 1 .. Len(hist[0].bar) : hist[0].bar[n]

\* C28: with a second run_n_steps and no reset in between, first_call stays false,
\* the MPIRecv of the first step of the second run does not wait and shows the value
\* the peer's MPISend copied in the last step of the first run, and after the second
\* run signals, time, samples and counters are those of one run of the sum of the
\* two step counts.
C28_LatencyAcrossRuns ==
    (Len(runs) = 2 /\ runs[1].k >= 1) =>
        \A c \in Chunks :
            /\ ~recvFirst[c] /\ ~sendFirst[c]
            /\ (stepsDone[c] = 0 /\ CurOp(c) = "recv") => recvPending[c] = 0
            /\ RecvCount(c) > runs[1].k =>
                  /\ hist[c].recv[runs[1].k + 1] = hist[Peer(c)].send[runs[1].k]
                  /\ hist[c].recvSeq[runs[1].k + 1] = runs[1].k
            /\ runs[2].done =>
                  LET n == runs[1].k + runs[2].k
                      t == LockstepTrace(<<>>, n)
                  IN  /\ x[c] = t[n][c].x /\ y[c] = t[n][c].y
                      /\ time[c] = n
                      /\ SendCount(c) = n /\ RecvCount(c) = n /\ barStep[c] = n
                      /\ AllSamples(c) = [i \in 1 .. n |-> <<t[i][c].x, t[i][c].y>>]

C28_Witness ==
    /\ Len(runs) = 2
    /\ runs[1].k = MaxSteps /\ runs[2].k = MaxSteps
    /\ runs[2].done
    /\ \E c \in Chunks :
          /\ hist[c].recv[MaxSteps + 1] # hist[c].recv[MaxSteps]
          /\ hist[c].recv[MaxSteps + 1] # InitY(c)

(***************************************************************************)
(* Properties of the command-line entry point.                             *)
(***************************************************************************)
\* rank 0 is no longer in mpi_master_start
MasterLeft == cli.master \in {"returned", "thrown", "aborted", "finalized"}

\* C29 (as claimed): on whatever path rank 0 has left mpi_master_start, the workers
\* have been told to terminate; so they have when rank 0 is in or past MPI_Finalize.
C29_WorkersToldToTerminate ==
    (cli.phase = "cli" /\ MasterLeft) => cli.killed

(***************************************************************************)
(* Properties of the worker after its run.                                 *)
(***************************************************************************)
\* what the worker sends for its i-th probe, whose samples are those of the steps
\* 1 .. stepsRun
ExpectedOfProbe(i) ==
    <<[kind |-> "key", val |-> wrk.probes[i].key], [kind |-> "int", val |-> wrk.stepsRun]>>
    \o [t \in 1 .. wrk.stepsRun |-> [kind |-> "matrix", val |-> t]]

RECURSIVE ExpectedUpTo(_)
ExpectedUpTo(i) == IF i = 0 THEN <<>> ELSE ExpectedUpTo(i - 1) \o ExpectedOfProbe(i)

\* C30: the worker sends nothing with probe_tag before it and every other rank have
\* entered the post-run barrier; what it has sent is, probe by probe, the key, the
\* number of samples and then exactly that many samples in the order they were
\* taken; a probe is hard-cleared when all its messages are sent and not before;
\* and in the final barrier every probe is empty and everything has been sent.
C30_ProbeShipping ==
    wrk.phase # "off" =>
        /\ wrk.shipped # <<>> =>
              wrk.bar1 = OtherRanks /\ wrk.phase \in {"ship", "final_barrier", "finalize"}
        /\ wrk.phase = "ship" =>
              /\ wrk.pidx \in 1 .. Len(wrk.probes)
              /\ wrk.shipped = ExpectedUpTo(wrk.pidx - 1)
                                  \o SubSeq(ExpectedOfProbe(wrk.pidx), 1, wrk.ppos - 1)
              /\ \A i \in 1 .. Len(wrk.probes) :
                    IF i < wrk.pidx
                    THEN wrk.probes[i].data = <<>> /\ wrk.probes[i].cap = 0
                    ELSE wrk.probes[i].data = [t \in 1 .. wrk.stepsRun |-> t]
        /\ wrk.phase \in {"final_barrier", "finalize"} =>
              /\ wrk.shipped = ExpectedUpTo(Len(wrk.probes))
              /\ \A i \in 1 .. Len(wrk.probes) :
                    wrk.probes[i].data = <<>> /\ wrk.probes[i].cap = 0

C30_Witness ==
    /\ wrk.phase = "final_barrier"
    /\ Len(wrk.probes) = 2
    /\ wrk.stepsRun = 2
    /\ Len(wrk.shipped) = 8
    /\ wrk.shipped[6] = [kind |-> "int", val |-> 2]

(***************************************************************************)
(* Properties of the worker that is sent an invalid flag.                  *)
(***************************************************************************)
ValidFlags == AddFlags \cup {stop_flag}

CountApplied(flag) ==
    Cardinality({i \in 1 .. Len(wrk.applied) : wrk.applied[i].flag = flag})

\* the worker has raised the error: its chunk holds what the records before the
\* invalid flag added and nothing else, no operator has the communicator by
\* set_communicator, there is no barrier, and nothing was run or sent
ErrorLeavesChunk ==
    wrk.phase = "error" =>
        /\ wrk.cur \notin ValidFlags
        /\ wrk.applied = BuildRecords(wrk.sent)
        /\ wrk.sent[Len(wrk.applied) + 1] \notin ValidFlags
        /\ Len(wrk.ops) = CountApplied(add_op_flag)
        /\ Len(wrk.probes) = CountApplied(add_probe_flag)
        /\ \A i \in 1 .. Len(wrk.ops) :
              /\ wrk.ops[i].kind # "barrier"
              /\ wrk.ops[i].kind \in {"send", "recv"} => ~wrk.ops[i].bound
        /\ ~wrk.barrier
        /\ wrk.steps = Undef /\ wrk.stepsRun = 0
        /\ wrk.done = <<>> /\ wrk.trace = <<>>
        /\ wrk.shipped = <<>>

\* C31: the receive of a flag that is none of add_signal, add_op, add_probe and stop
\* takes the worker to the error and changes nothing of its chunk; in the error the
\* chunk is as the records before left it, without communicators and barrier; and
\* the worker stays there: it receives nothing more and runs no step.
C31_InvalidFlagError ==
    /\ []ErrorLeavesChunk
    /\ [][(/\ wrk.phase = "flag"
           /\ wrk.wire # <<>>
           /\ wrk'.wire = Tail(wrk.wire)
           /\ Head(wrk.wire).val \notin ValidFlags)
          => (/\ wrk'.phase = "error"
              /\ wrk'.ops = wrk.ops
              /\ wrk'.probes = wrk.probes
              /\ wrk'.applied = wrk.applied)]_vars
    /\ [][wrk.phase = "error"
          => (/\ wrk'.phase = "error"
              /\ wrk'.ops = wrk.ops
              /\ wrk'.probes = wrk.probes
              /\ wrk'.applied = wrk.applied
              /\ wrk'.stepsRun = wrk.stepsRun
              /\ Len(wrk'.wire) >= Len(wrk.wire))]_vars

C31_Witness ==
    /\ wrk.phase = "error"
    /\ wrk.sent = <<add_op_flag, stop_flag + 1, stop_flag>>
    /\ Kinds(wrk.ops) = <<"send">>
    /\ wrk.bcast = MaxSteps
    /\ Len(wrk.wire) = 1
    /\ wrk.bar1 = OtherRanks

=============================================================================
